---------------------------- MODULE Spec2Model ----------------------------
(***************************************************************************)
(* Validation and sanitization core of the appointment-booking client      *)
(* (src/src/utils/validation.ts, src/src/utils/sanitization.ts).           *)
(*                                                                         *)
(* A JavaScript string is a sequence of code points (all characters of the *)
(* model lie in the Basic Multilingual Plane, so code points and UTF-16    *)
(* code units coincide and `length` is Len).  A JavaScript value handed to *)
(* a validator or sanitizer is a string, null or undefined.  The functions *)
(* are pure and every call is independent: under Spec the state is one     *)
(* call, the function called, its arguments and its outcome (a returned    *)
(* value or a thrown error).                                               *)
(*                                                                         *)
(* PagesSpec is the pages that use the functions: SignIn, SignUp, Profile  *)
(* and AppointmentFeedback, with their React state and the call they make  *)
(* on the store or the API.                                                *)
(***************************************************************************)
EXTENDS Integers, Sequences, FiniteSets, TLC

\* a call of a utility function: the function, its input, its other
\* arguments, its outcome
VARIABLES op, input, args, ret

\* the page that is mounted and its React state: the user type, the values of
\* the inputs, the errors shown, the call in progress on the store or the API
VARIABLES page, userType, fields, errors, remoteCall

\* the React state of AppointmentFeedback
VARIABLES rating, comments, commentsError, appointment

formVars == <<userType, fields, errors>>

feedbackVars == <<rating, comments, commentsError, appointment>>

pageVars == <<page, remoteCall, formVars, feedbackVars>>

vars == <<op, input, args, ret, pageVars>>

-----------------------------------------------------------------------------
(* JavaScript values and call outcomes *)

Str(s) == [t |-> "string", s |-> s]

Null == [t |-> "null"]

Undefined == [t |-> "undefined"]

IsString(v) == v.t = "string"

\* !v for v a string, null or undefined
Falsy(v) == IF IsString(v) THEN v.s = <<>> ELSE TRUE

Return(x) == [kind |-> "return", value |-> x]

Throw(e) == [kind |-> "throw", error |-> e]

\* { isValid: true }
Valid == [isValid |-> TRUE]

\* { isValid: false, error: e }
Invalid(e) == [isValid |-> FALSE, error |-> e]

-----------------------------------------------------------------------------
(* Characters *)

\* the character c, n times
Rep(c, n) == [i \in 1..n |-> c]

\* ECMAScript WhiteSpace and LineTerminator: the characters matched by \s
\* and removed by String.prototype.trim
IsWhiteSpace(c) ==
    \/ c \in {9, 10, 11, 12, 13, 32, 160, 5760, 8232, 8233, 8239, 8287, 12288, 65279}
    \/ c \in 8192..8202

IsUpper(c) == c \in 65..90

IsLower(c) == c \in 97..122

IsDigit(c) == c \in 48..57

IsAsciiLetter(c) == IsUpper(c) \/ IsLower(c)

\* the class [!\"#$%&'()*+,\-./:;<=>?@\[\]\\^_`{|}~]
IsAsciiPunctuation(c) ==
    c \in 33..47 \/ c \in 58..64 \/ c \in 91..96 \/ c \in 123..126

\* mutant: a trim that strips every character up to U+0020, NUL included
trim_ControlChars(s) ==
    IF \A i \in 1..Len(s) : s[i] <= 32 \/ IsWhiteSpace(s[i]) THEN <<>>
    ELSE LET first == CHOOSE i \in 1..Len(s) :
                          /\ ~(s[i] <= 32 \/ IsWhiteSpace(s[i]))
                          /\ \A j \in 1..(i - 1) : s[j] <= 32 \/ IsWhiteSpace(s[j])
             last == CHOOSE i \in 1..Len(s) :
                         /\ ~(s[i] <= 32 \/ IsWhiteSpace(s[i]))
                         /\ \A j \in (i + 1)..Len(s) : s[j] <= 32 \/ IsWhiteSpace(s[j])
         IN  SubSeq(s, first, last)

trim(s) ==
    IF \A i \in 1..Len(s) : IsWhiteSpace(s[i]) THEN <<>>
    ELSE LET first == CHOOSE i \in 1..Len(s) :
                          ~IsWhiteSpace(s[i]) /\ \A j \in 1..(i - 1) : IsWhiteSpace(s[j])
             last == CHOOSE i \in 1..Len(s) :
                         ~IsWhiteSpace(s[i]) /\ \A j \in (i + 1)..Len(s) : IsWhiteSpace(s[j])
         IN  SubSeq(s, first, last)

InRange(c, lo, hi) == lo <= c /\ c <= hi

\* mutant: the control characters are tested before the whitespace
getUnicodeCategory_ControlFirst(char) ==
    IF IsAsciiLetter(char) THEN "L"
    ELSE IF InRange(char, 192, 591) THEN "L"
    ELSE IF InRange(char, 880, 1023) THEN "L"
    ELSE IF InRange(char, 1024, 1279) THEN "L"
    ELSE IF InRange(char, 1424, 1535) THEN "L"
    ELSE IF InRange(char, 1536, 1791) THEN "L"
    ELSE IF InRange(char, 2304, 2431) THEN "L"
    ELSE IF \/ InRange(char, 19968, 40959)
            \/ InRange(char, 12352, 12447)
            \/ InRange(char, 12448, 12543) THEN "L"
    ELSE IF IsDigit(char) THEN "N"
    ELSE IF InRange(char, 0, 31) \/ InRange(char, 127, 159) THEN "C"
    ELSE IF IsWhiteSpace(char) THEN "Z"
    ELSE IF IsAsciiPunctuation(char) THEN "P"
    ELSE IF InRange(char, 768, 879) \/ InRange(char, 6832, 6911) THEN "M"
    ELSE "S"

getUnicodeCategory(char) ==
    IF IsAsciiLetter(char) THEN "L"
    ELSE IF InRange(char, 192, 591) THEN "L"
    ELSE IF InRange(char, 880, 1023) THEN "L"
    ELSE IF InRange(char, 1024, 1279) THEN "L"
    ELSE IF InRange(char, 1424, 1535) THEN "L"
    ELSE IF InRange(char, 1536, 1791) THEN "L"
    ELSE IF InRange(char, 2304, 2431) THEN "L"
    ELSE IF \/ InRange(char, 19968, 40959)
            \/ InRange(char, 12352, 12447)
            \/ InRange(char, 12448, 12543) THEN "L"
    ELSE IF IsDigit(char) THEN "N"
    ELSE IF IsWhiteSpace(char) THEN "Z"
    ELSE IF IsAsciiPunctuation(char) THEN "P"
    ELSE IF InRange(char, 0, 31) \/ InRange(char, 127, 159) THEN "C"
    ELSE IF InRange(char, 768, 879) \/ InRange(char, 6832, 6911) THEN "M"
    ELSE "S"

-----------------------------------------------------------------------------
(* Canonical composition (String.prototype.normalize('NFC')), for the      *)
(* characters of the model: ASCII, the accented letters below, the         *)
(* combining acute accent U+0301 and the Kelvin sign U+212A.               *)

CombiningAcute == 769

KelvinSign == 8490

\* base letter -> the precomposed letter with acute
AcuteOf ==
    [c \in {65, 69, 73, 79, 85, 89, 97, 101, 105, 111, 117, 121} |-> c + 128]
    @@ (67 :> 262 @@ 99 :> 263 @@ 76 :> 313 @@ 108 :> 314 @@ 78 :> 323
        @@ 110 :> 324 @@ 82 :> 340 @@ 114 :> 341 @@ 83 :> 346 @@ 115 :> 347
        @@ 90 :> 377 @@ 122 :> 378 @@ 71 :> 500 @@ 103 :> 501 @@ 75 :> 7728
        @@ 107 :> 7729 @@ 77 :> 7742 @@ 109 :> 7743 @@ 80 :> 7764
        @@ 112 :> 7765 @@ 87 :> 7810 @@ 119 :> 7811)

\* singleton canonical decompositions
Singleton(c) == IF c = KelvinSign THEN 75 ELSE c

\* a combining acute that follows a letter it composes with is absorbed by
\* that letter; every other character stands, singletons replaced
Compose(s) ==
    LET absorbed(j) ==
            /\ s[j] = CombiningAcute
            /\ j > 1
            /\ Singleton(s[j - 1]) \in DOMAIN AcuteOf
        kept == SelectSeq([j \in 1..Len(s) |-> j], LAMBDA j : ~absorbed(j))
    IN  [k \in 1..Len(kept) |->
            LET j == kept[k]
            IN  IF j < Len(s) /\ absorbed(j + 1) THEN AcuteOf[Singleton(s[j])]
                ELSE Singleton(s[j])]

\* text: a JavaScript value
normalizeText(text) ==
    IF Falsy(text) THEN <<>> ELSE Compose(text.s)

-----------------------------------------------------------------------------
(* validation.ts *)

MaxEmailLength == 254

MaxLocalPartLength == 63

MinPasswordLength == 8

MaxPasswordLength == 128

MinNameLength == 2

MaxNameLength == 100

MinLicenseLength == 3

MaxLicenseLength == 50

AMKALength == 11

\* mutant: the allow list is consulted before the disallow list
detectFrom_AllowedFirst(text, i, allowedCats, allowedChars, disallowed) ==
    LET returned(char) ==
            IF char \in allowedChars THEN FALSE
            ELSE IF char \in disallowed THEN TRUE
            ELSE getUnicodeCategory(char) \notin allowedCats
        stops == {j \in i..Len(text) : returned(text[j])}
    IN  IF stops = {} THEN Null
        ELSE Str(<<text[CHOOSE j \in stops : \A k \in stops : j <= k]>>)

\* text: a sequence of characters; the loop from position i on: the first
\* character at which an iteration returns, or null when none does
detectFrom(text, i, allowedCategories, allowedIndividualChars, disallowedChars) ==
    LET returned(char) ==
            IF char \in disallowedChars THEN TRUE
            ELSE IF char \in allowedIndividualChars THEN FALSE
            ELSE getUnicodeCategory(char) \notin allowedCategories
        stops == {j \in i..Len(text) : returned(text[j])}
    IN  IF stops = {} THEN Null
        ELSE Str(<<text[CHOOSE j \in stops : \A k \in stops : j <= k]>>)

detectInvalidCharacter(text, allowedCategories, allowedIndividualChars, disallowedChars) ==
    detectFrom(text, 1, allowedCategories, allowedIndividualChars, disallowedChars)

\* the number of positions of s holding c: (s.match(/c/g) || []).length
Count(s, c) == Cardinality({i \in 1..Len(s) : s[i] = c})

\* /[`'"\u0000]/.test(s)
HasDangerousEmailChar(s) == \E i \in 1..Len(s) : s[i] \in {96, 39, 34, 0}

\* /^[a-zA-Z0-9.-]+\.[a-zA-Z]{2,}$/.test(domain)
domainRegex(domain) ==
    \E k \in 2..Len(domain) :
        /\ domain[k] = 46
        /\ \A i \in 1..(k - 1) :
               IsAsciiLetter(domain[i]) \/ IsDigit(domain[i]) \/ domain[i] \in {46, 45}
        /\ Len(domain) - k >= 2
        /\ \A i \in (k + 1)..Len(domain) : IsAsciiLetter(domain[i])

\* mutant: the bound is off by one
LocalPartTooLong_OffByOne(localPart) == Len(localPart) >= MaxLocalPartLength

\* localPart.length > 63
LocalPartTooLong(localPart) == Len(localPart) > MaxLocalPartLength

\* mutant: the dangerous-character check comes before the local-part length
validateEmail_DangerousFirst(email) ==
    IF Falsy(email) \/ Len(trim(email.s)) = 0
    THEN Return(Invalid("Email is required"))
    ELSE
    LET trimmedEmail == trim(email.s)
        atCount == Count(trimmedEmail, 64)
        at == CHOOSE i \in 1..Len(trimmedEmail) : trimmedEmail[i] = 64
        localPart == SubSeq(trimmedEmail, 1, at - 1)
        domain == SubSeq(trimmedEmail, at + 1, Len(trimmedEmail))
    IN  IF Len(trimmedEmail) > MaxEmailLength
        THEN Return(Invalid("Email is too long"))
        ELSE IF atCount # 1
        THEN Return(Invalid("Email must contain exactly one @ symbol"))
        ELSE IF localPart = <<>> \/ domain = <<>>
        THEN Return(Invalid("Please enter a valid email address"))
        ELSE IF HasDangerousEmailChar(trimmedEmail)
        THEN Return(Invalid("Email contains invalid characters"))
        ELSE IF Len(localPart) > MaxLocalPartLength
        THEN Return(Invalid("Email local part is too long (max 63 characters)"))
        ELSE IF ~domainRegex(domain)
        THEN Return(Invalid("Please enter a valid domain"))
        ELSE Return(Valid)

validateEmail(email) ==
    IF Falsy(email) \/ Len(trim(email.s)) = 0
    THEN Return(Invalid("Email is required"))
    ELSE
    LET trimmedEmail == trim(email.s)
        atCount == Count(trimmedEmail, 64)
        at == CHOOSE i \in 1..Len(trimmedEmail) : trimmedEmail[i] = 64
        localPart == SubSeq(trimmedEmail, 1, at - 1)
        domain == SubSeq(trimmedEmail, at + 1, Len(trimmedEmail))
    IN  IF Len(trimmedEmail) > MaxEmailLength
        THEN Return(Invalid("Email is too long"))
        ELSE IF atCount # 1
        THEN Return(Invalid("Email must contain exactly one @ symbol"))
        ELSE IF localPart = <<>> \/ domain = <<>>
        THEN Return(Invalid("Please enter a valid email address"))
        ELSE IF LocalPartTooLong(localPart)
        THEN Return(Invalid("Email local part is too long (max 63 characters)"))
        ELSE IF Len(localPart) = 0
        THEN Return(Invalid("Email local part cannot be empty"))
        ELSE IF HasDangerousEmailChar(trimmedEmail)
        THEN Return(Invalid("Email contains invalid characters"))
        ELSE IF ~domainRegex(domain)
        THEN Return(Invalid("Please enter a valid domain"))
        ELSE Return(Valid)

\* /[!@#$%^&*()_+\-=\[\]{};':"\\|,.<>\/?]/
IsSpecialChar(c) ==
    c \in {33, 64, 35, 36, 37, 94, 38, 42, 40, 41, 95, 43, 45, 61, 91, 93,
           123, 125, 59, 39, 58, 34, 92, 124, 44, 46, 60, 62, 47, 63}

\* mutant: the bound is off by one
PasswordTooShort_OffByOne(p) == Len(p) <= MinPasswordLength

\* password.length < 8
PasswordTooShort(p) == Len(p) < MinPasswordLength

validatePassword(password) ==
    IF Falsy(password) \/ Len(password.s) = 0
    THEN Return(Invalid("Password is required"))
    ELSE
    LET p == password.s
        hasUpperCase == \E i \in 1..Len(p) : IsUpper(p[i])
        hasLowerCase == \E i \in 1..Len(p) : IsLower(p[i])
        hasNumber == \E i \in 1..Len(p) : IsDigit(p[i])
        hasSpecialChar == \E i \in 1..Len(p) : IsSpecialChar(p[i])
    IN  IF PasswordTooShort(p)
        THEN Return(Invalid("Password must be at least 8 characters long"))
        ELSE IF Len(p) > MaxPasswordLength
        THEN Return(Invalid("Password is too long"))
        ELSE IF ~hasUpperCase \/ ~hasLowerCase \/ ~hasNumber \/ ~hasSpecialChar
        THEN Return(Invalid(
            "Password must contain uppercase, lowercase, number, and special character"))
        ELSE Return(Valid)

\* the accented letters of nameRegex (validation.ts) and of sanitizeName
AccentedLetters ==
    {241, 225, 233, 237, 243, 250, 252, 224, 232, 236, 242, 249, 226, 234,
     238, 244, 251, 228, 235, 239, 246, 231}

\* mutant: the accented letters are left out of the class
IsNameChar_NoAccents(c) == IsAsciiLetter(c) \/ IsWhiteSpace(c) \/ c \in {45, 39}

\* the class [a-zA-Z<accented>\s\-']
IsNameChar(c) ==
    IsAsciiLetter(c) \/ c \in AccentedLetters \/ IsWhiteSpace(c) \/ c \in {45, 39}

validateFullName(name) ==
    IF Falsy(name) \/ Len(trim(name.s)) = 0
    THEN Return(Invalid("Full name is required"))
    ELSE
    LET trimmedName == trim(name.s)
    IN  IF Len(trimmedName) < MinNameLength
        THEN Return(Invalid("Full name must be at least 2 characters"))
        ELSE IF Len(trimmedName) > MaxNameLength
        THEN Return(Invalid("Full name is too long"))
        ELSE IF ~(\A i \in 1..Len(trimmedName) : IsNameChar(trimmedName[i]))
        THEN Return(Invalid("Full name contains invalid characters"))
        ELSE Return(Valid)

\* s.replace(/[...]/g, ''): the characters of s not satisfying Drop, in order
\* outside the class [\s\-()], whose characters replace(/[\s\-()]/g, '') removes
IsNotPhoneSeparator(c) == ~(IsWhiteSpace(c) \/ c \in {45, 40, 41})

\* mutant: one digit more is accepted
phoneRegex_OffByOne(s) ==
    LET digits == IF s # <<>> /\ Head(s) = 43 THEN Tail(s) ELSE s
    IN  /\ Len(digits) \in 7..16
        /\ \A i \in 1..Len(digits) : IsDigit(digits[i])

\* /^[+]?[0-9]{7,15}$/.test(s)
phoneRegex(s) ==
    LET digits == IF s # <<>> /\ Head(s) = 43 THEN Tail(s) ELSE s
    IN  /\ Len(digits) \in 7..15
        /\ \A i \in 1..Len(digits) : IsDigit(digits[i])

validatePhone(phone) ==
    IF Falsy(phone) \/ Len(trim(phone.s)) = 0
    THEN Return(Valid)
    ELSE
    LET trimmedPhone == trim(phone.s)
    IN  IF ~phoneRegex(SelectSeq(trimmedPhone, IsNotPhoneSeparator))
        THEN Return(Invalid("Please enter a valid phone number"))
        ELSE Return(Valid)

\* mutant: eleven digits or more
validateAMKA_AtLeast(amka) ==
    IF Falsy(amka) \/ Len(trim(amka.s)) = 0
    THEN Return(Invalid("AMKA is required"))
    ELSE
    LET trimmedAMKA == trim(amka.s)
    IN  IF ~(Len(trimmedAMKA) >= AMKALength
             /\ \A i \in 1..Len(trimmedAMKA) : IsDigit(trimmedAMKA[i]))
        THEN Return(Invalid("AMKA must be 11 digits"))
        ELSE Return(Valid)

validateAMKA(amka) ==
    IF Falsy(amka) \/ Len(trim(amka.s)) = 0
    THEN Return(Invalid("AMKA is required"))
    ELSE
    LET trimmedAMKA == trim(amka.s)
    IN  IF ~(Len(trimmedAMKA) = AMKALength
             /\ \A i \in 1..Len(trimmedAMKA) : IsDigit(trimmedAMKA[i]))
        THEN Return(Invalid("AMKA must be 11 digits"))
        ELSE Return(Valid)

\* mutant: the underscore is in the class
IsLicenseChar_Underscore(c) == IsAsciiLetter(c) \/ IsDigit(c) \/ c \in {45, 47, 95}

\* the class [a-zA-Z0-9\-\/]
IsLicenseChar(c) == IsAsciiLetter(c) \/ IsDigit(c) \/ c \in {45, 47}

validateLicenseID(licenseID) ==
    IF Falsy(licenseID) \/ Len(trim(licenseID.s)) = 0
    THEN Return(Invalid("License ID is required"))
    ELSE
    LET trimmedLicense == trim(licenseID.s)
    IN  IF Len(trimmedLicense) < MinLicenseLength
        THEN Return(Invalid("License ID is too short"))
        ELSE IF Len(trimmedLicense) > MaxLicenseLength
        THEN Return(Invalid("License ID is too long"))
        ELSE IF ~(\A i \in 1..Len(trimmedLicense) : IsLicenseChar(trimmedLicense[i]))
        THEN Return(Invalid("License ID contains invalid characters"))
        ELSE Return(Valid)

allowedCategories == {"L", "N", "Z", "M"}

\* ' - . , ! ? ; : ( ) " / & em dash, en dash, ellipsis, newline
allowedIndividualChars ==
    {39, 45, 46, 44, 33, 63, 59, 58, 40, 41, 34, 47, 38, 8212, 8211, 8230, 10}

disallowedChars == {0}

DefaultMinLength == 0

DefaultMaxLength == 1000

\* mutant: the maximum length is checked before the minimum length
validateFreeFormText_LongFirst(text, minLength, maxLength, required, fieldName) ==
    IF required /\ (Falsy(text) \/ Len(trim(text.s)) = 0)
    THEN Return(Invalid(<<fieldName, " is required">>))
    ELSE IF Falsy(text) \/ Len(trim(text.s)) = 0
    THEN Return(Valid)
    ELSE
    LET normalizedText == normalizeText(text)
        invalidChar == detectInvalidCharacter(normalizedText, allowedCategories,
                           allowedIndividualChars, disallowedChars)
    IN  IF maxLength > 0 /\ Len(normalizedText) > maxLength
        THEN Return(Invalid(<<fieldName, " must not exceed ", maxLength, " characters">>))
        ELSE IF minLength > 0 /\ Len(trim(normalizedText)) < minLength
        THEN Return(Invalid(<<fieldName, " must be at least ", minLength, " characters">>))
        ELSE IF ~Falsy(invalidChar)
        THEN Return(Invalid(<<fieldName, " contains invalid character '",
                              invalidChar.s, "'">>))
        ELSE Return(Valid)

\* mutant: a blank text that is not required goes on to the other checks
validateFreeFormText_NoBlankSkip(text, minLength, maxLength, required, fieldName) ==
    IF required /\ (Falsy(text) \/ Len(trim(text.s)) = 0)
    THEN Return(Invalid(<<fieldName, " is required">>))
    ELSE
    LET normalizedText == normalizeText(text)
        invalidChar == detectInvalidCharacter(normalizedText, allowedCategories,
                           allowedIndividualChars, disallowedChars)
    IN  IF minLength > 0 /\ Len(trim(normalizedText)) < minLength
        THEN Return(Invalid(<<fieldName, " must be at least ", minLength, " characters">>))
        ELSE IF maxLength > 0 /\ Len(normalizedText) > maxLength
        THEN Return(Invalid(<<fieldName, " must not exceed ", maxLength, " characters">>))
        ELSE IF ~Falsy(invalidChar)
        THEN Return(Invalid(<<fieldName, " contains invalid character '",
                              invalidChar.s, "'">>))
        ELSE Return(Valid)

validateFreeFormText(text, minLength, maxLength, required, fieldName) ==
    IF required /\ (Falsy(text) \/ Len(trim(text.s)) = 0)
    THEN Return(Invalid(<<fieldName, " is required">>))
    ELSE IF Falsy(text) \/ Len(trim(text.s)) = 0
    THEN Return(Valid)
    ELSE
    LET normalizedText == normalizeText(text)
        invalidChar == detectInvalidCharacter(normalizedText, allowedCategories,
                           allowedIndividualChars, disallowedChars)
    IN  IF minLength > 0 /\ Len(trim(normalizedText)) < minLength
        THEN Return(Invalid(<<fieldName, " must be at least ", minLength, " characters">>))
        ELSE IF maxLength > 0 /\ Len(normalizedText) > maxLength
        THEN Return(Invalid(<<fieldName, " must not exceed ", maxLength, " characters">>))
        ELSE IF ~Falsy(invalidChar)
        THEN Return(Invalid(<<fieldName, " contains invalid character '",
                              invalidChar.s, "'">>))
        ELSE Return(Valid)

\* mutant: value.trim() without the guard against null and undefined
validateSelectField_NoNullCheck(value) ==
    IF ~IsString(value) THEN Throw("TypeError")
    ELSE IF Len(trim(value.s)) = 0
    THEN Return(Invalid("Please select an option"))
    ELSE Return(Valid)

validateSelectField(value) ==
    IF Falsy(value) \/ Len(trim(value.s)) = 0
    THEN Return(Invalid("Please select an option"))
    ELSE Return(Valid)

-----------------------------------------------------------------------------
(* sanitization.ts *)

WhiteSpaceChars == {c \in (0..12288) \cup {65279} : IsWhiteSpace(c)}

\* s.replace(/<[^>]*>/g, ''): a match starts at a '<' that has a '>' after it
\* and ends at the first such '>'; position i lies in a match iff a '<' at or
\* before i has no '>' between itself and i, and a '>' stands at or after i
InTag(s, i) ==
    /\ \E p \in 1..i : s[p] = 60 /\ \A j \in p..(i - 1) : s[j] # 62
    /\ \E q \in i..Len(s) : s[q] = 62

StripTags(s) ==
    LET kept == SelectSeq([i \in 1..Len(s) |-> i], LAMBDA i : ~InTag(s, i))
    IN  [k \in 1..Len(kept) |-> s[kept[k]]]

\* s.replace(/pat/g, rep) for a literal pattern pat
RECURSIVE ReplaceAll(_, _, _)
ReplaceAll(s, pat, rep) ==
    IF Len(s) < Len(pat) THEN s
    ELSE IF SubSeq(s, 1, Len(pat)) = pat
    THEN rep \o ReplaceAll(SubSeq(s, Len(pat) + 1, Len(s)), pat, rep)
    ELSE <<Head(s)>> \o ReplaceAll(Tail(s), pat, rep)

\* s.replace(/[class]+/g, rep): every maximal run of class characters becomes
\* the one character rep (also what /\n\n+/g -> '\n' does to runs of newlines)
Collapse(s, class, rep) ==
    LET first == SelectSeq([i \in 1..Len(s) |-> i],
                     LAMBDA i : s[i] \notin class \/ i = 1 \/ s[i - 1] \notin class)
    IN  [k \in 1..Len(first) |-> IF s[first[k]] \in class THEN rep ELSE s[first[k]]]

\* String.prototype.toLowerCase on the characters of the model
LowerChar(c) ==
    IF IsUpper(c) \/ InRange(c, 192, 214) \/ InRange(c, 216, 222) THEN c + 32
    ELSE IF c = KelvinSign THEN 107
    ELSE c

toLowerCase(s) == [i \in 1..Len(s) |-> LowerChar(s[i])]

\* &lt;  &gt;  &quot;  &#x27;  &amp;
EntLt == <<38, 108, 116, 59>>

EntGt == <<38, 103, 116, 59>>

EntQuot == <<38, 113, 117, 111, 116, 59>>

EntApos == <<38, 35, 120, 50, 55, 59>>

EntAmp == <<38, 97, 109, 112, 59>>

EntSlash == <<38, 35, 120, 50, 70, 59>>

\* mutant: &amp; is decoded first
DecodeEntities_AmpFirst(s) ==
    ReplaceAll(ReplaceAll(ReplaceAll(ReplaceAll(ReplaceAll(s,
        EntAmp, <<38>>), EntLt, <<60>>), EntGt, <<62>>), EntQuot, <<34>>),
        EntApos, <<39>>)

DecodeEntities(s) ==
    ReplaceAll(ReplaceAll(ReplaceAll(ReplaceAll(ReplaceAll(s,
        EntLt, <<60>>), EntGt, <<62>>), EntQuot, <<34>>), EntApos, <<39>>),
        EntAmp, <<38>>)

sanitizeInput(in) ==
    IF Falsy(in) THEN Return(Str(<<>>))
    ELSE Return(Str(DecodeEntities(StripTags(in.s))))

\* email.trim().toLowerCase(): a method call on null or undefined throws
sanitizeEmail(email) ==
    IF ~IsString(email) THEN Throw("TypeError")
    ELSE Return(Str(toLowerCase(trim(email.s))))

sanitizePassword(password) ==
    IF ~IsString(password) THEN Throw("TypeError")
    ELSE Return(Str(trim(password.s)))

\* mutant: at most one whitespace character is removed at each end
sanitizeText_TrimOnce(text) ==
    IF Falsy(text) THEN Return(Str(<<>>))
    ELSE LET s == text.s
             a == IF s # <<>> /\ IsWhiteSpace(s[1]) THEN Tail(s) ELSE s
             b == IF a # <<>> /\ IsWhiteSpace(a[Len(a)])
                  THEN SubSeq(a, 1, Len(a) - 1) ELSE a
         IN  Return(Str(b))

sanitizeText(text) ==
    IF Falsy(text) THEN Return(Str(<<>>))
    ELSE Return(Str(trim(text.s)))

\* s.replace(/[^class]/g, '') keeps the characters of the class, in order:
\* SelectSeq(s, IsInClass)

sanitizeNumber(in) ==
    IF Falsy(in) THEN Return(Str(<<>>))
    ELSE Return(Str(SelectSeq(in.s, IsDigit)))

\* mutant: every whitespace character is in the class
IsPhoneChar_WhiteSpace(c) == IsDigit(c) \/ c \in {43, 45, 40, 41} \/ IsWhiteSpace(c)

\* the class [\d+\-() ]
IsPhoneChar(c) == IsDigit(c) \/ c \in {43, 45, 40, 41, 32}

sanitizePhoneNumber(phone) ==
    IF Falsy(phone) THEN Return(Str(<<>>))
    ELSE Return(Str(SelectSeq(phone.s, IsPhoneChar)))

IsNotSlash(c) == c # 47

\* mutant: the slash is removed too
sanitizeAlphanumeric_NoSlash(in) ==
    IF Falsy(in) THEN Return(Str(<<>>))
    ELSE Return(Str(SelectSeq(SelectSeq(in.s, IsLicenseChar), IsNotSlash)))

sanitizeAlphanumeric(in) ==
    IF Falsy(in) THEN Return(Str(<<>>))
    ELSE Return(Str(SelectSeq(in.s, IsLicenseChar)))

\* the non-ASCII letters of the class in sanitizeName: the file holds the
\* Hangul syllables U+CC70, U+CC3C, ... (the UTF-8 bytes of the accented
\* letters of nameRegex read as CP949), not the accented letters themselves
SanitizeNameLetters ==
    {52336, 52284, 52309, 52320, 52376, 52396, 52404, 54954, 52308, 52313,
     52341, 52395, 52285, 52311, 52324, 52377, 52397, 52292, 52312, 52326,
     52384, 52300}

\* the class [a-zA-Z<letters>\s\-'] of sanitizeName
IsSanitizedNameChar(c) ==
    IsAsciiLetter(c) \/ c \in SanitizeNameLetters \/ IsWhiteSpace(c) \/ c \in {45, 39}

sanitizeName(name) ==
    IF Falsy(name) THEN Return(Str(<<>>))
    ELSE Return(Str(Collapse(SelectSeq(StripTags(trim(name.s)), IsSanitizedNameChar),
                             WhiteSpaceChars, 32)))

\* mutant: only runs of spaces are collapsed, tabs are left alone
sanitizeTextarea_SpacesOnly(text) ==
    IF Falsy(text) THEN Return(Str(<<>>))
    ELSE Return(Str(Collapse(Collapse(StripTags(trim(text.s)), {10}, 10),
                             {32}, 32)))

sanitizeTextarea(text) ==
    IF Falsy(text) THEN Return(Str(<<>>))
    ELSE Return(Str(Collapse(Collapse(StripTags(trim(text.s)), {10}, 10),
                             {32, 9}, 32)))

\* the entity a character is escaped to, or the character itself
EncodeChar(c) ==
    IF c = 38 THEN EntAmp
    ELSE IF c = 60 THEN EntLt
    ELSE IF c = 62 THEN EntGt
    ELSE IF c = 34 THEN EntQuot
    ELSE IF c = 39 THEN EntApos
    ELSE IF c = 47 THEN EntSlash
    ELSE <<c>>

RECURSIVE EncodeAll(_)
EncodeAll(s) == IF s = <<>> THEN <<>> ELSE EncodeChar(Head(s)) \o EncodeAll(Tail(s))

encodeHTML(text) ==
    IF Falsy(text) THEN Return(Str(<<>>))
    ELSE Return(Str(EncodeAll(text.s)))

\* text.substring(0, maxLength): a negative maxLength counts as 0
limitLength(text, maxLength) ==
    IF Falsy(text) THEN Return(Str(<<>>))
    ELSE Return(Str(SubSeq(text.s, 1,
             IF maxLength < 0 THEN 0
             ELSE IF maxLength > Len(text.s) THEN Len(text.s) ELSE maxLength)))

\* Canonicalize of a case-insensitive regular expression without the u flag:
\* the upper-case form; no character outside ASCII is folded to an ASCII one
Canonicalize(c) == IF IsLower(c) THEN c - 32 ELSE c

\* /pat/i.test(s) for a literal pattern pat
TestIgnoreCase(s, pat) ==
    \E i \in 1..(Len(s) - Len(pat) + 1) :
        \A k \in 1..Len(pat) : Canonicalize(s[i + k - 1]) = Canonicalize(pat[k])

\* the class \w
IsWordChar(c) == IsAsciiLetter(c) \/ IsDigit(c) \/ c = 95

\* /on\w+\s*=/i.test(s): "on" at i, word characters up to j, whitespace up to
\* the '=' at k
TestEventHandler(s) ==
    \E i \in 1..Len(s) : \E j \in (i + 2)..Len(s) : \E k \in (j + 1)..Len(s) :
        /\ Canonicalize(s[i]) = 79
        /\ Canonicalize(s[i + 1]) = 78
        /\ \A m \in (i + 2)..j : IsWordChar(s[m])
        /\ \A m \in (j + 1)..(k - 1) : IsWhiteSpace(s[m])
        /\ s[k] = 61

\* <script  javascript:  <iframe  <object  <embed  eval(  expression(
dangerousPatterns ==
    { <<60, 115, 99, 114, 105, 112, 116>>,
      <<106, 97, 118, 97, 115, 99, 114, 105, 112, 116, 58>>,
      <<60, 105, 102, 114, 97, 109, 101>>, <<60, 111, 98, 106, 101, 99, 116>>,
      <<60, 101, 109, 98, 101, 100>>, <<101, 118, 97, 108, 40>>,
      <<101, 120, 112, 114, 101, 115, 115, 105, 111, 110, 40>> }

containsDangerousPatterns(in) ==
    IF Falsy(in) THEN FALSE
    ELSE \/ \E pattern \in dangerousPatterns : TestIgnoreCase(in.s, pattern)
         \/ TestEventHandler(in.s)

\* mutant: the input is cleaned of its tags whether or not a pattern matches
sanitizeAndValidate_AlwaysClean(in) == sanitizeInput(in)

sanitizeAndValidate(in) ==
    IF containsDangerousPatterns(in) THEN Return(Str(<<>>))
    ELSE sanitizeInput(in)

\* a value that is neither a string nor null nor undefined
Num(n) == [t |-> "number", n |-> n]

Bool(b) == [t |-> "boolean", b |-> b]

\* an object (a record of fields)
Obj(entries) == [t |-> "object", fields |-> entries]

\* mutant: every key is kept, those holding null or undefined too
sanitizeFormData_KeepAll(data) ==
    Return(Obj([key \in DOMAIN data |->
                   IF IsString(data[key]) THEN sanitizeInput(data[key]).value
                   ELSE data[key]]))

\* data: a function from the keys of the record to their values
sanitizeFormData(data) ==
    LET kept == {key \in DOMAIN data :
                    \/ IsString(data[key])
                    \/ data[key] # Null /\ data[key] # Undefined}
    IN  Return(Obj([key \in kept |->
                       IF IsString(data[key]) THEN sanitizeInput(data[key]).value
                       ELSE data[key]]))

-----------------------------------------------------------------------------
(* The forms: SignIn, SignUp, Profile *)

\* no call on the store is in progress
NoCall == [method |-> "none"]

\* formData.key || ''
OrEmpty(v) == IF Falsy(v) THEN Str(<<>>) ELSE v

\* the errors of the checks that failed: newErrors
ErrorsOf(checks) ==
    [key \in {k \in DOMAIN checks : ~checks[k].value.isValid} |-> checks[key].value.error]

\* result.error || ''
ErrorOrEmpty(result) ==
    IF "error" \in DOMAIN result.value THEN result.value.error ELSE ""

\* mutant: the password is forwarded as typed
SignInData_RawPassword(email, password) ==
    [email |-> sanitizeEmail(email).value, password |-> password]

\* SignIn: the object handed to userStore.login
SignInData(email, password) ==
    [email |-> sanitizeEmail(email).value, password |-> sanitizePassword(password).value]

\* SignUp: the checks validateForm makes for the user type
SignUpChecks(formData, type) ==
    [email |-> validateEmail(OrEmpty(formData.email)),
     password |-> validatePassword(OrEmpty(formData.password)),
     fullName |-> validateFullName(OrEmpty(formData.fullName))]
    @@ (IF type = "DOCTOR"
        THEN [speciality |-> validateSelectField(OrEmpty(formData.speciality)),
              licenceID |-> validateLicenseID(OrEmpty(formData.licenceID)),
              officeLocation |-> validateSelectField(OrEmpty(formData.officeLocation))]
        ELSE <<>>)
    @@ (IF type = "PATIENT"
        THEN [amka |-> validateAMKA(OrEmpty(formData.amka))]
        ELSE <<>>)

\* newErrors; validateForm returns true when it has no key
validateForm(formData, type) == ErrorsOf(SignUpChecks(formData, type))

\* SignUp: the object handed to userStore.register
SignUpData(formJson, type) ==
    [email |-> sanitizeEmail(formJson.email).value,
     password |-> sanitizePassword(formJson.password).value,
     fullName |-> sanitizeName(formJson.fullName).value,
     speciality |-> formJson.speciality,
     licenceID |-> sanitizeAlphanumeric(formJson.licenceID).value,
     officeLocation |-> formJson.officeLocation,
     amka |-> sanitizeNumber(formJson.amka).value,
     userType |-> type]

\* Profile: the checks validateProfileForm makes for the user type
ProfileChecks(data, type) ==
    [fullName |-> validateFullName(OrEmpty(data.fullName)),
     email |-> validateEmail(OrEmpty(data.email)),
     phone |-> validatePhone(OrEmpty(data.phone))]
    @@ (IF type = "DOCTOR"
        THEN [licenceID |-> validateLicenseID(OrEmpty(data.licenceID)),
              bio |-> validateFreeFormText(OrEmpty(data.bio), 0, 1000, FALSE, "Bio"),
              officeLocation |-> validateSelectField(OrEmpty(data.officeLocation))]
        ELSE <<>>)
    @@ (IF type = "PATIENT"
        THEN [amka |-> validateAMKA(OrEmpty(data.amka))]
        ELSE <<>>)

validateProfileForm(data, type) == ErrorsOf(ProfileChecks(data, type))

\* Profile: the object handed to userStore.updateUserData
ProfileData(data, type) ==
    [fullName |-> sanitizeName(data.fullName).value,
     email |-> sanitizeEmail(data.email).value,
     phone |-> sanitizePhoneNumber(data.phone).value,
     amka |-> IF Falsy(data.amka) THEN Undefined ELSE sanitizeNumber(data.amka).value]
    @@ (IF type = "DOCTOR"
        THEN [licenceID |-> IF Falsy(data.licenceID) THEN Undefined
                            ELSE sanitizeAlphanumeric(data.licenceID).value,
              bio |-> IF Falsy(data.bio) THEN Undefined
                      ELSE sanitizeTextarea(data.bio).value,
              officeLocation |-> data.officeLocation,
              speciality |-> data.speciality]
        ELSE <<>>)

-----------------------------------------------------------------------------
(* The values the functions are called with *)

\* the longest string enumerated character by character
MaxLen == 3

Strings(alphabet, n) == UNION {[1..k -> alphabet] : k \in 0..n}

Values(S) == {Str(s) : s \in S} \cup {Null, Undefined}

\* NUL, space, e, combining acute, <, .
TextStrings ==
    Strings({0, 32, 101, CombiningAcute, 60, 46}, MaxLen)
    \cup { <<72, 101, 108, 108, 111, 32, 60, 115, 99, 114, 105, 112, 116, 62>>,
           <<KelvinSign>>, <<9>>, <<10>>, <<160>>, <<101, 10, 9, 101>>, <<38>>,
           <<8212, 8211, 8230>>, <<8364>>, <<32, 0, 32>>, <<60, 0>>, <<0, 60>>,
           <<101, 46, 60, 8364>> }

\* a core over @ ' . a, after 0, 63 or 250 letters, before nothing or ".aa",
\* bare or between spaces
EmailStrings ==
    { lead \o Rep(97, n) \o core \o suffix \o lead :
        lead \in {<<>>, <<32>>},
        n \in {0, MaxLocalPartLength, MaxEmailLength - 4},
        core \in Strings({64, 39, 46, 97}, MaxLen),
        suffix \in {<<>>, <<46, 97, 97>>} }
    \cup { <<106, 111, 104, 110, 64, 64, 101, 120, 97, 109, 112, 108, 101, 46, 99, 111, 109>>,
           <<97, 64, 97, 45, 49, 46, 97, 97>>, <<97, 64, 97, 46, 97, 49>>,
           <<97, 0, 64, 97, 46, 97, 97>>, <<97, 64, 97, 95, 46, 97, 97>>,
           <<32, 97, 64, 97, 46, 97, 97>>, <<97, 64, 97, 46, 97, 97, 9>> }

\* a core over A 1 ! space, then 0, 4, 5, 125 or 126 letters a, then nothing
\* or a space
PasswordStrings ==
    { core \o Rep(97, n) \o tail :
        core \in Strings({65, 49, 33, 32}, MaxLen),
        n \in {0, MinPasswordLength - 4, MinPasswordLength - 3,
               MaxPasswordLength - 3, MaxPasswordLength - 2},
        tail \in {<<>>, <<32>>} }
    \cup { <<201, 97, 97, 97, 97, 97, 49, 33>>, <<65, 97, 97, 97, 97, 97, 49, 8364>>,
           <<65, 97, 97, 97, 97, 97, 1637, 33>>, Rep(32, MinPasswordLength),
           <<32, 65, 97, 97, 97, 97, 49, 33>> }

\* a core over a, space, tab, 1, e-acute, then 0, 97 or 98 letters a
NameStrings ==
    { core \o Rep(97, n) :
        core \in Strings({97, 32, 9, 49, 233}, MaxLen),
        n \in {0, MaxNameLength - 3, MaxNameLength - 2} }
    \cup { <<79, 39, 78, 101, 105, 108, 45, 233>>, <<201, 97>>, <<97, 10, 97>>,
           <<97, 160, 97>>, <<97, 60, 97>>, <<74, 111, 115, 233>>, <<97, 52336>>,
           <<32, 60, 98, 62, 32, 97, 32, 60, 98, 62, 32, 97>> }

\* a core over space, 1, +, -, a, then 0, 5, 9 or 13 digits, then nothing or
\* a space
NumberStrings ==
    { core \o Rep(49, n) \o tail :
        core \in Strings({32, 49, 43, 45, 97}, MaxLen),
        n \in {0, 5, 9, 13},
        tail \in {<<>>, <<32>>} }
    \cup { <<40, 49, 49, 49, 41, 32, 49, 49, 49, 45, 49>>,
           <<49, 50, 51, 52, 53, 54, 55, 56, 57, 48, 97>>,
           <<49, 50, 51, 9, 52, 53, 54, 55>>, <<49, 49, 49, 49, 49, 49, 1633>>,
           <<32, 49, 50, 51, 52, 53, 54, 55, 56, 57, 48, 49, 9>> }

\* a core over a, 1, /, space, _, then 0, 47 or 48 letters a
LicenseStrings ==
    { core \o Rep(97, n) :
        core \in Strings({97, 49, 47, 32, 95}, MaxLen),
        n \in {0, MaxLicenseLength - 3, MaxLicenseLength - 2} }
    \cup { <<97, 233, 97>>, <<65, 45, 49, 47, 122>>, <<9, 97, 98, 99, 32>> }

\* < > & a space newline, and entity-encoded text
HtmlStrings ==
    Strings({60, 62, 38, 97, 32, 10}, MaxLen)
    \cup { EntLt \o <<115>> \o EntGt, <<38, 97, 109, 112, 59, 108, 116, 59>>,
           <<60, 97, 62, 65, 9, 9, 98, 10, 10, 10, 99, 60, 47, 97, 62>>,
           EntQuot \o EntApos \o EntAmp, <<65, 201, KelvinSign>>,
           <<38, 108, 116, 59, 115, 99, 114, 105, 112, 116, 38, 103, 116, 59>>,
           <<60, 60, 97, 62, 62>>, <<60, 97, 60, 98, 62, 62, 60>>,
           <<60, 98, 62, 32, 97>>, <<97, 32, 60, 105, 62>> }

\* a core over space, tab, newline, < and > between two letters
TextareaStrings ==
    { <<97>> \o core \o <<98>> : core \in Strings({32, 9, 10, 60, 62}, MaxLen) }

\* & < ' / a, and the six characters encodeHTML escapes
EncodeStrings ==
    Strings({38, 60, 39, 47, 97}, MaxLen)
    \cup { <<38, 60, 62, 34, 39, 47>>, <<38, 60, 62, 34, 39, 98>>, EntLt, EntAmp \o EntLt }

\* the signatures of containsDangerousPatterns in lower, upper and mixed case
SignatureStrings ==
    { <<60, 115, 99, 114, 105, 112, 116>>, <<60, 83, 67, 82, 73, 80, 84>>,
      <<60, 83, 99, 82, 105, 80, 116>>,
      <<106, 97, 118, 97, 115, 99, 114, 105, 112, 116, 58>>,
      <<74, 97, 118, 97, 83, 99, 114, 105, 112, 116, 58>>,
      <<111, 110, 99, 108, 105, 99, 107, 61>>, <<79, 78, 76, 79, 65, 68, 32, 61>>,
      <<111, 110, 120, 9, 61>>, <<111, 110, 49, 61>>,
      <<60, 105, 102, 114, 97, 109, 101>>, <<60, 73, 70, 82, 65, 77, 69>>,
      <<60, 111, 98, 106, 101, 99, 116>>, <<60, 79, 98, 106, 101, 99, 116>>,
      <<60, 101, 109, 98, 101, 100>>, <<60, 69, 77, 66, 69, 68>>,
      <<101, 118, 97, 108, 40>>, <<69, 86, 65, 76, 40>>,
      <<101, 120, 112, 114, 101, 115, 115, 105, 111, 110, 40>>,
      <<69, 120, 112, 114, 101, 115, 115, 105, 111, 110, 40>> }

\* a signature after nothing, a letter or a tag, and before nothing or ">x";
\* texts that come close to a signature without matching one; HtmlStrings
DangerStrings ==
    { pre \o sig \o post :
        pre \in {<<>>, <<97>>, <<60, 98, 62>>},
        sig \in SignatureStrings,
        post \in {<<>>, <<62, 120>>} }
    \cup { <<60, 115, 99, 114, 105, 112>>,
           <<106, 97, 118, 97, 115, 99, 114, 105, 112, 116>>, <<111, 110, 61>>,
           <<111, 110, 32, 61>>, <<111, 110, 120>>, <<111, 110, 45, 120, 61>>,
           <<101, 118, 97, 108, 32, 40>>,
           <<101, 120, 112, 114, 101, 115, 115, 105, 111, 110>>,
           <<60, 32, 115, 99, 114, 105, 112, 116>>,
           <<38, 108, 116, 59, 115, 99, 114, 105, 112, 116, 38, 103, 116, 59, 97, 108, 101, 114, 116, 40, 49, 41, 38, 108, 116, 59, 47, 115, 99, 114, 105, 112, 116, 38, 103, 116, 59>>,
           <<60, 98, 62, 111, 107, 60, 47, 98, 62>>,
           <<101, 118, 97, 108, 117, 97, 116, 101>>, <<111, 110, 233, 61>>,
           <<108, 101, 109, 111, 110, 95, 49, 32, 61, 32, 50>>, <<83, 111, 110, 61, 49>>,
           <<60, 115, 99, 114, 105, 112, 116, 62, 97, 108, 101, 114, 116, 40, 49, 41, 60, 47, 115, 99, 114, 105, 112, 116, 62>>,
           <<38, 97, 109, 112, 59, 108, 116, 59, 98, 38, 97, 109, 112, 59, 103, 116, 59>>,
           <<60, 383, 99, 114, 105, 112, 116>>,
           <<106, 97, 118, 97, 10, 115, 99, 114, 105, 112, 116, 58>>,
           <<97, 60, 98, 62, 99, 38, 113, 117, 111, 116, 59>> }
    \cup { <<106, 97, 118, 97, 60, 98, 62, 115, 99, 114, 105, 112, 116, 58>>,
           <<101, 118, 60, 105, 62, 97, 108, 40, 49, 41>> }
    \cup HtmlStrings

FormKeys == {"fullName", "bio", "age"}

\* "<b>a</b>", "&lt;", "", null, undefined, 0, false, { note: "<i>" }
FormValues ==
    { Str(<<60, 98, 62, 97, 60, 47, 98, 62>>), Str(EntLt), Str(<<>>), Null, Undefined,
      Num(0), Bool(FALSE), Obj([note |-> Str(<<60, 105, 62>>)]) }

\* the records over some of the keys
FormDatas == UNION {[keys -> FormValues] : keys \in SUBSET FormKeys}

\* characters at the ends of the ranges getUnicodeCategory tests, and others
CategoryChars ==
    {0, 9, 10, 11, 12, 13, 31, 32, 33, 47, 48, 57, 58, 64, 65, 90, 91, 96, 97,
     122, 123, 126, 127, 133, 159, 160, 161, 191, 192, 215, 233, 591, 592, 767,
     768, 769, 879, 880, 1023, 1024, 1279, 1280, 1423, 1424, 1535, 1536, 1637,
     1791, 1792, 2303, 2304, 2431, 2432, 5760, 6831, 6832, 6911, 6912, 8192,
     8202, 8203, 8212, 8232, 8364, 8490, 12288, 12351, 12352, 12447, 12448,
     12543, 12544, 19967, 19968, 40959, 40960, 52336, 65279}

FreeFormArgs ==
    [minLength : {DefaultMinLength, 2, 3}, maxLength : {0 - 1, 0, 1, 2, DefaultMaxLength},
     required : BOOLEAN, fieldName : {"Text", "Bio"}]

DetectArgs ==
    [allowedCategories : {allowedCategories, {"L"}},
     allowedIndividualChars : {allowedIndividualChars, allowedIndividualChars \cup {0, 60}},
     disallowedChars : {disallowedChars, {}, {0, 46}}]

LimitArgs == [maxLength : (0 - 1)..(MaxLen + 1)]

NoArgs == <<>>

NoRet == [kind |-> "none"]

-----------------------------------------------------------------------------
(* The calls: each call is independent of every other *)

Init ==
    /\ op = "idle"
    /\ input = Undefined
    /\ args = NoArgs
    /\ ret = NoRet
    /\ page = "none"
    /\ remoteCall = NoCall
    /\ userType = "DOCTOR"
    /\ fields = <<>>
    /\ errors = <<>>
    /\ rating = 0
    /\ comments = Str(<<>>)
    /\ commentsError = ""
    /\ appointment = Undefined

Call(f, v, a, r) ==
    /\ op' = f
    /\ input' = v
    /\ args' = a
    /\ ret' = r
    /\ UNCHANGED pageVars

CallValidateEmail ==
    /\ op = "idle"
    /\ \E v \in Values(EmailStrings) : Call("validateEmail", v, NoArgs, validateEmail(v))


CallValidatePassword ==
    /\ op = "idle"
    /\ \E v \in Values(PasswordStrings) :
           Call("validatePassword", v, NoArgs, validatePassword(v))

CallValidateFullName ==
    /\ op = "idle"
    /\ \E v \in Values(NameStrings) : Call("validateFullName", v, NoArgs, validateFullName(v))


CallValidatePhone ==
    /\ op = "idle"
    /\ \E v \in Values(NumberStrings) : Call("validatePhone", v, NoArgs, validatePhone(v))


CallValidateAMKA ==
    /\ op = "idle"
    /\ \E v \in Values(NumberStrings) : Call("validateAMKA", v, NoArgs, validateAMKA(v))


CallValidateLicenseID ==
    /\ op = "idle"
    /\ \E v \in Values(LicenseStrings \cup NumberStrings) :
           Call("validateLicenseID", v, NoArgs, validateLicenseID(v))

CallValidateSelectField ==
    /\ op = "idle"
    /\ \E v \in Values(NumberStrings) :
           Call("validateSelectField", v, NoArgs, validateSelectField(v))

CallValidateFreeFormText ==
    /\ op = "idle"
    /\ \E v \in Values(TextStrings), a \in FreeFormArgs :
           Call("validateFreeFormText", v, a,
                validateFreeFormText(v, a.minLength, a.maxLength, a.required, a.fieldName))

CallDetectInvalidCharacter ==
    /\ op = "idle"
    /\ \E s \in TextStrings, a \in DetectArgs :
           Call("detectInvalidCharacter", Str(s), a,
                Return(detectInvalidCharacter(s, a.allowedCategories,
                           a.allowedIndividualChars, a.disallowedChars)))

CallGetUnicodeCategory ==
    /\ op = "idle"
    /\ \E char \in CategoryChars :
           Call("getUnicodeCategory", Str(<<char>>), NoArgs,
                Return(getUnicodeCategory(char)))

CallNormalizeText ==
    /\ op = "idle"
    /\ \E v \in Values(TextStrings) :
           Call("normalizeText", v, NoArgs, Return(Str(normalizeText(v))))

CallSanitizeInput ==
    /\ op = "idle"
    /\ \E v \in Values(HtmlStrings) : Call("sanitizeInput", v, NoArgs, sanitizeInput(v))


CallSanitizeEmail ==
    /\ op = "idle"
    /\ \E v \in Values(EmailStrings \cup HtmlStrings) :
           Call("sanitizeEmail", v, NoArgs, sanitizeEmail(v))

CallSanitizePassword ==
    /\ op = "idle"
    /\ \E v \in Values(PasswordStrings) :
           Call("sanitizePassword", v, NoArgs, sanitizePassword(v))

CallSanitizeText ==
    /\ op = "idle"
    /\ \E v \in Values(HtmlStrings) : Call("sanitizeText", v, NoArgs, sanitizeText(v))


CallSanitizeNumber ==
    /\ op = "idle"
    /\ \E v \in Values(NumberStrings) : Call("sanitizeNumber", v, NoArgs, sanitizeNumber(v))


CallSanitizePhoneNumber ==
    /\ op = "idle"
    /\ \E v \in Values(NumberStrings) :
           Call("sanitizePhoneNumber", v, NoArgs, sanitizePhoneNumber(v))

CallSanitizeAlphanumeric ==
    /\ op = "idle"
    /\ \E v \in Values(LicenseStrings) :
           Call("sanitizeAlphanumeric", v, NoArgs, sanitizeAlphanumeric(v))

CallSanitizeName ==
    /\ op = "idle"
    /\ \E v \in Values(NameStrings \cup HtmlStrings) :
           Call("sanitizeName", v, NoArgs, sanitizeName(v))

CallSanitizeTextarea ==
    /\ op = "idle"
    /\ \E v \in Values(HtmlStrings \cup TextareaStrings) :
           Call("sanitizeTextarea", v, NoArgs, sanitizeTextarea(v))


CallEncodeHTML ==
    /\ op = "idle"
    /\ \E v \in Values(HtmlStrings \cup EncodeStrings) :
           Call("encodeHTML", v, NoArgs, encodeHTML(v))


CallLimitLength ==
    /\ op = "idle"
    /\ \E v \in Values(HtmlStrings), a \in LimitArgs :
           Call("limitLength", v, a, limitLength(v, a.maxLength))

CallContainsDangerousPatterns ==
    /\ op = "idle"
    /\ \E v \in Values(DangerStrings) :
           Call("containsDangerousPatterns", v, NoArgs, Return(containsDangerousPatterns(v)))

CallSanitizeAndValidate ==
    /\ op = "idle"
    /\ \E v \in Values(DangerStrings) :
           Call("sanitizeAndValidate", v, NoArgs, sanitizeAndValidate(v))

CallSanitizeFormData ==
    /\ op = "idle"
    /\ \E data \in FormDatas :
           Call("sanitizeFormData", Obj(data), NoArgs, sanitizeFormData(data))

\* the caller takes the result; the next call starts from nothing
Done ==
    /\ op # "idle"
    /\ op' = "idle"
    /\ input' = Undefined
    /\ args' = NoArgs
    /\ ret' = NoRet
    /\ UNCHANGED pageVars

Next ==
    \/ CallValidateEmail
    \/ CallValidatePassword
    \/ CallValidateFullName
    \/ CallValidatePhone
    \/ CallValidateAMKA
    \/ CallValidateLicenseID
    \/ CallValidateSelectField
    \/ CallValidateFreeFormText
    \/ CallDetectInvalidCharacter
    \/ CallGetUnicodeCategory
    \/ CallNormalizeText
    \/ CallSanitizeInput
    \/ CallSanitizeEmail
    \/ CallSanitizePassword
    \/ CallSanitizeText
    \/ CallSanitizeNumber
    \/ CallSanitizePhoneNumber
    \/ CallSanitizeAlphanumeric
    \/ CallSanitizeName
    \/ CallSanitizeTextarea
    \/ CallEncodeHTML
    \/ CallLimitLength
    \/ CallContainsDangerousPatterns
    \/ CallSanitizeAndValidate
    \/ CallSanitizeFormData
    \/ Done

Spec == Init /\ [][Next]_vars

-----------------------------------------------------------------------------
(* What the user can type or select in the forms *)

\* "", " A@b.co "
EmailField == {Str(<<>>), Str(<<32, 65, 64, 98, 46, 99, 111, 32>>)}

\* "short", "A1!aaaa " (seven characters and a space), "A1!aaaaa"
PasswordField == {Str(<<115, 104, 111, 114, 116>>), Str(<<65, 49, 33, 97, 97, 97, 97, 32>>),
                  Str(<<65, 49, 33, 97, 97, 97, 97, 97>>)}

\* "x1", " Ann  Lee"
NameField == {Str(<<120, 49>>), Str(<<32, 65, 110, 110, 32, 32, 76, 101, 101>>)}

\* "12", "210\t1234567"
PhoneField == {Str(<<49, 50>>), Str(<<50, 49, 48, 9, 49, 50, 51, 52, 53, 54, 55>>)}

\* "a_", " a/1 "
LicenceField == {Str(<<97, 95>>), Str(<<32, 97, 47, 49, 32>>)}

\* "", "12a", " 12345678901 "
AmkaField == {Str(<<>>), Str(<<49, 50, 97>>),
              Str(<<32, 49, 50, 51, 52, 53, 54, 55, 56, 57, 48, 49, 32>>)}

\* "", "ATHENS"
OfficeField == {Str(<<>>), Str(<<65, 84, 72, 69, 78, 83>>)}

\* "", "CARDIOLOGY"
SpecialityField == {Str(<<>>), Str(<<67, 65, 82, 68, 73, 79, 76, 79, 71, 89>>)}

\* "", "Hi  there", "<b>"
BioField == {Str(<<>>), Str(<<72, 105, 32, 32, 116, 104, 101, 114, 101>>), Str(<<60, 98, 62>>)}

FieldValues ==
    [email |-> EmailField, password |-> PasswordField, fullName |-> NameField,
     phone |-> PhoneField, licenceID |-> LicenceField, amka |-> AmkaField,
     officeLocation |-> OfficeField, speciality |-> SpecialityField, bio |-> BioField]

UserTypes == {"DOCTOR", "PATIENT"}

\* the inputs each form renders for a user type
SignUpInputs(type) ==
    {"email", "password", "fullName"}
    \cup (IF type = "DOCTOR" THEN {"speciality", "licenceID", "officeLocation"}
          ELSE {"amka"})

ProfileInputs(type) ==
    {"fullName", "email", "phone"}
    \cup (IF type = "DOCTOR" THEN {"speciality", "licenceID", "officeLocation", "bio"}
          ELSE {"amka"})

\* the values of a new SignUp form: the rendered inputs are empty, the others
\* are not in the form
SignUpBlank(type) ==
    [key \in {"email", "password", "fullName", "speciality", "licenceID",
              "officeLocation", "amka"} |->
        IF key \in SignUpInputs(type) THEN Str(<<>>) ELSE Undefined]

\* the values the Profile page starts from (userStore.key || '')
ProfileStored ==
    [fullName : NameField, email : EmailField, phone : PhoneField,
     licenceID : {Str(<<>>), Str(<<32, 97, 47, 49, 32>>)}, officeLocation : OfficeField,
     speciality : {Str(<<67, 65, 82, 68, 73, 79, 76, 79, 71, 89>>)}, amka : AmkaField, bio : {Str(<<>>)}]

\* AppointmentFeedback
MAX_COMMENTS_LENGTH == 400

AppointmentIDs == {7}

\* no star, one star, five stars
Stars == {0, 1, 5}

\* how a comment ends: letters, spaces, newlines and '<', '>'
CommentEnds ==
    Strings({97, 32, 60}, 2) \cup {<<60, 98, 62>>, <<97, 10, 10, 98>>, <<60, 98, 62, 32, 97>>}

\* comments around the limit of 400 characters: what the textarea reports
CommentValues ==
    {Rep(97, n) \o end : n \in {0, MAX_COMMENTS_LENGTH - 2, MAX_COMMENTS_LENGTH - 1},
                         end \in CommentEnds}

-----------------------------------------------------------------------------
(* The pages.  One page is mounted at a time; a handler runs to its first   *)
(* await, where the call on the store is in progress, and the call returns  *)
(* before the next event of the page.                                       *)

\* the handler that ran; the utility call of the other specification is idle
Handler(name) ==
    /\ op' = name
    /\ UNCHANGED <<input, args, ret>>

Mounted(name) ==
    /\ page = name
    /\ remoteCall.method = "none"

MountSignIn ==
    /\ page = "none"
    /\ page' = "SignIn"
    /\ fields' = [email |-> Str(<<>>), password |-> Str(<<>>)]
    /\ errors' = [email |-> "", password |-> ""]
    /\ Handler("SignIn")
    /\ UNCHANGED <<userType, remoteCall, feedbackVars>>

\* the user types in an input of the SignIn form
SignInInput ==
    /\ Mounted("SignIn")
    /\ \E key \in DOMAIN fields : \E value \in FieldValues[key] :
           fields' = [fields EXCEPT ![key] = value]
    /\ Handler("input")
    /\ UNCHANGED <<page, userType, errors, remoteCall, feedbackVars>>

handleEmailBlur ==
    /\ Mounted("SignIn")
    /\ errors' = [errors EXCEPT !.email = ErrorOrEmpty(validateEmail(fields.email))]
    /\ Handler("handleEmailBlur")
    /\ UNCHANGED <<page, userType, fields, remoteCall, feedbackVars>>

handlePasswordBlur ==
    /\ Mounted("SignIn")
    /\ errors' = [errors EXCEPT !.password = ErrorOrEmpty(validatePassword(fields.password))]
    /\ Handler("handlePasswordBlur")
    /\ UNCHANGED <<page, userType, fields, remoteCall, feedbackVars>>

SignInHandleSubmit ==
    /\ Mounted("SignIn")
    /\ LET emailValidation == validateEmail(fields.email)
           passwordValidation == validatePassword(fields.password)
       IN  /\ errors' = [email |-> ErrorOrEmpty(emailValidation),
                         password |-> ErrorOrEmpty(passwordValidation)]
           /\ remoteCall' =
                  IF ~emailValidation.value.isValid \/ ~passwordValidation.value.isValid
                  THEN NoCall
                  ELSE [method |-> "login",
                        data |-> SignInData(fields.email, fields.password)]
    /\ Handler("SignIn.handleSubmit")
    /\ UNCHANGED <<page, userType, fields, feedbackVars>>

MountSignUp ==
    /\ page = "none"
    /\ page' = "SignUp"
    /\ userType' = "DOCTOR"
    /\ fields' = SignUpBlank("DOCTOR")
    /\ errors' = <<>>
    /\ Handler("SignUp")
    /\ UNCHANGED <<remoteCall, feedbackVars>>

\* the radio group: the inputs of the other user type leave the form
setUserType ==
    /\ Mounted("SignUp")
    /\ \E type \in UserTypes \ {userType} :
           /\ userType' = type
           /\ fields' = [key \in DOMAIN fields |->
                            IF key \in SignUpInputs(type) \cap SignUpInputs(userType)
                            THEN fields[key]
                            ELSE SignUpBlank(type)[key]]
    /\ Handler("setUserType")
    /\ UNCHANGED <<page, errors, remoteCall, feedbackVars>>

SignUpInput ==
    /\ Mounted("SignUp")
    /\ \E key \in SignUpInputs(userType) : \E value \in FieldValues[key] :
           fields' = [fields EXCEPT ![key] = value]
    /\ Handler("input")
    /\ UNCHANGED <<page, userType, errors, remoteCall, feedbackVars>>

SignUpHandleSubmit ==
    /\ Mounted("SignUp")
    /\ LET newErrors == validateForm(fields, userType)
       IN  /\ errors' = newErrors
           /\ remoteCall' =
                  IF DOMAIN newErrors # {} THEN NoCall
                  ELSE [method |-> "register", data |-> SignUpData(fields, userType)]
    /\ Handler("SignUp.handleSubmit")
    /\ UNCHANGED <<page, userType, fields, feedbackVars>>

MountProfile ==
    /\ page = "none"
    /\ page' = "Profile"
    /\ \E type \in UserTypes, stored \in ProfileStored :
           /\ userType' = type
           /\ fields' = stored
    /\ errors' = <<>>
    /\ Handler("Profile")
    /\ UNCHANGED <<remoteCall, feedbackVars>>

\* onChange of an input of the Profile page: setFullName, setEmail, ...
ProfileInput ==
    /\ Mounted("Profile")
    /\ \E key \in ProfileInputs(userType) : \E value \in FieldValues[key] :
           fields' = [fields EXCEPT ![key] = value]
    /\ Handler("input")
    /\ UNCHANGED <<page, userType, errors, remoteCall, feedbackVars>>

ProfileSubmitHandler ==
    /\ Mounted("Profile")
    /\ LET newErrors == validateProfileForm(fields, userType)
       IN  /\ errors' = newErrors
           /\ remoteCall' =
                  IF DOMAIN newErrors # {} THEN NoCall
                  ELSE [method |-> "updateUserData", data |-> ProfileData(fields, userType)]
    /\ Handler("Profile.submitHandler")
    /\ UNCHANGED <<page, userType, fields, feedbackVars>>

\* AppointmentFeedback: useAppointment(id) has not answered yet
MountAppointmentFeedback ==
    /\ page = "none"
    /\ page' = "AppointmentFeedback"
    /\ rating' = 0
    /\ comments' = Str(<<>>)
    /\ commentsError' = ""
    /\ appointment' = Undefined
    /\ Handler("AppointmentFeedback")
    /\ UNCHANGED <<remoteCall, formVars>>

\* useAppointment(id) answers with the appointment
AppointmentLoaded ==
    /\ Mounted("AppointmentFeedback")
    /\ appointment = Undefined
    /\ \E id \in AppointmentIDs : appointment' = Obj([appointmentid |-> id])
    /\ Handler("useAppointment")
    /\ UNCHANGED <<page, remoteCall, formVars, rating, comments, commentsError>>

\* MaterialRating: setValue={setRating}
setRating ==
    /\ Mounted("AppointmentFeedback")
    /\ \E stars \in Stars : rating' = stars
    /\ Handler("setRating")
    /\ UNCHANGED <<page, remoteCall, formVars, comments, commentsError, appointment>>

handleCommentsChange ==
    /\ Mounted("AppointmentFeedback")
    /\ \E value \in CommentValues :
           comments' = limitLength(Str(value), MAX_COMMENTS_LENGTH).value
    /\ commentsError' = ""
    /\ Handler("handleCommentsChange")
    /\ UNCHANGED <<page, remoteCall, formVars, rating, appointment>>

\* mutant: the rating is not looked at
FeedbackOutcome_NoRatingCheck(stars, text, loaded) ==
    LET commentsValidation ==
            validateFreeFormText(text, 0, MAX_COMMENTS_LENGTH, FALSE, "Comments")
    IN  IF ~commentsValidation.value.isValid
        THEN [commentsError |-> ErrorOrEmpty(commentsValidation), call |-> NoCall]
        ELSE IF loaded.t = "undefined" THEN [call |-> NoCall]
        ELSE [call |-> [method |-> "createRating",
                        data |-> [appointmentID |-> loaded.fields.appointmentid,
                                  stars |-> stars,
                                  comments |-> sanitizeTextarea(text).value]]]

\* submitHandler of AppointmentFeedback: the error it sets, when it sets one,
\* and the call it makes
FeedbackOutcome(stars, text, loaded) ==
    LET commentsValidation ==
            validateFreeFormText(text, 0, MAX_COMMENTS_LENGTH, FALSE, "Comments")
    IN  IF stars = 0 THEN [call |-> NoCall]
        ELSE IF ~commentsValidation.value.isValid
        THEN [commentsError |-> ErrorOrEmpty(commentsValidation), call |-> NoCall]
        ELSE IF loaded.t = "undefined" THEN [call |-> NoCall]
        ELSE [call |-> [method |-> "createRating",
                        data |-> [appointmentID |-> loaded.fields.appointmentid,
                                  stars |-> stars,
                                  comments |-> sanitizeTextarea(text).value]]]

FeedbackSubmitHandler ==
    /\ Mounted("AppointmentFeedback")
    /\ LET outcome == FeedbackOutcome(rating, comments, appointment)
       IN  /\ commentsError' = IF "commentsError" \in DOMAIN outcome
                               THEN outcome.commentsError ELSE commentsError
           /\ remoteCall' = outcome.call
    /\ Handler("AppointmentFeedback.submitHandler")
    /\ UNCHANGED <<page, formVars, rating, comments, appointment>>

\* the state of a page is lost when the page is left
Unmounts ==
    /\ page' = "none"
    /\ userType' = "DOCTOR"
    /\ fields' = <<>>
    /\ errors' = <<>>
    /\ rating' = 0
    /\ comments' = Str(<<>>)
    /\ commentsError' = ""
    /\ appointment' = Undefined

\* the call on the store or the API returns; SignUp goes to the login page
\* after a registration, AppointmentFeedback to the history after a rating
RemoteReturns ==
    /\ remoteCall.method # "none"
    /\ remoteCall' = NoCall
    /\ \E done \in BOOLEAN :
           IF done /\ page \in {"SignUp", "AppointmentFeedback"}
           THEN Unmounts
           ELSE UNCHANGED <<page, formVars, feedbackVars>>
    /\ Handler("return")

\* the user leaves the page
Leave ==
    /\ page # "none"
    /\ remoteCall.method = "none"
    /\ Unmounts
    /\ Handler("leave")
    /\ UNCHANGED remoteCall

PagesNext ==
    \/ MountSignIn
    \/ SignInInput
    \/ handleEmailBlur
    \/ handlePasswordBlur
    \/ SignInHandleSubmit
    \/ MountSignUp
    \/ setUserType
    \/ SignUpInput
    \/ SignUpHandleSubmit
    \/ MountProfile
    \/ ProfileInput
    \/ ProfileSubmitHandler
    \/ MountAppointmentFeedback
    \/ AppointmentLoaded
    \/ setRating
    \/ handleCommentsChange
    \/ FeedbackSubmitHandler
    \/ RemoteReturns
    \/ Leave

PagesSpec == Init /\ [][PagesNext]_vars

-----------------------------------------------------------------------------
(* Properties of the validators *)

Validators ==
    {"validateEmail", "validatePassword", "validateFullName", "validatePhone",
     "validateAMKA", "validateLicenseID", "validateFreeFormText", "validateSelectField"}

Sanitizers ==
    {"sanitizeInput", "sanitizeEmail", "sanitizePassword", "sanitizeText",
     "sanitizeNumber", "sanitizePhoneNumber", "sanitizeAlphanumeric", "sanitizeName",
     "sanitizeTextarea", "encodeHTML", "limitLength"}

Min(S) == CHOOSE x \in S : \A y \in S : x <= y

\* the input is empty, absent or made of whitespace only
Blank(v) == Falsy(v) \/ \A i \in 1..Len(v.s) : IsWhiteSpace(v.s[i])

\* the input with its leading and trailing whitespace removed
Trimmed(v) == IF IsString(v) THEN trim(v.s) ELSE <<>>

\* checks: a sequence of <<fails, error>> in the order of the checks; the
\* result of reporting the first check that fails
RECURSIVE FirstFailure(_)
FirstFailure(checks) ==
    IF checks = <<>> THEN Valid
    ELSE IF Head(checks)[1] THEN Invalid(Head(checks)[2])
    ELSE FirstFailure(Tail(checks))

\* C1: every validator returns a ValidationResult for every input, absent
\* values included, never throws, and the result carries an error exactly
\* when isValid is false.
C1_ErrorIffInvalid ==
    op \in Validators =>
        /\ ret.kind = "return"
        /\ ret.value.isValid \in BOOLEAN
        /\ ("error" \in DOMAIN ret.value) <=> ~ret.value.isValid

C1_Witness ==
    /\ op = "validateSelectField"
    /\ input = Null
    /\ ret.kind = "return"
    /\ ~ret.value.isValid
    /\ "error" \in DOMAIN ret.value

\* C2: every sanitizer returns a string for every input, and the empty
\* string when the input is empty or absent (null, undefined).
C2_SanitizersTotal ==
    op \in Sanitizers =>
        /\ ret.kind = "return"
        /\ IsString(ret.value)
        /\ Falsy(input) => ret.value.s = <<>>

\* C3: a text that contains the null byte is never valid for
\* validateFreeFormText, whatever minLength, maxLength, required and
\* fieldName are.
C3_NullByteRejected ==
    (/\ op = "validateFreeFormText"
     /\ IsString(input)
     /\ \E i \in 1..Len(input.s) : input.s[i] = 0)
    => (ret.kind = "return" /\ ~ret.value.isValid)

C3_Witness ==
    /\ op = "validateFreeFormText"
    /\ input = Str(<<32, 0, 32>>)
    /\ args = [minLength |-> DefaultMinLength, maxLength |-> DefaultMaxLength,
               required |-> FALSE, fieldName |-> "Text"]
    /\ ret.value = Invalid(<<"Text", " contains invalid character '", <<0>>, "'">>)

\* the character is not acceptable: it is disallowed, or it is neither
\* allowed individually nor of an allowed category
Offending(c, cats, chars, disallowed) ==
    \/ c \in disallowed
    \/ c \notin chars /\ getUnicodeCategory(c) \notin cats

HelloScript == <<72, 101, 108, 108, 111, 32, 60, 115, 99, 114, 105, 112, 116, 62>>

\* C4: detectInvalidCharacter returns null exactly when no character of the
\* text is offending (a disallowed character is offending even when it is
\* also allowed), and otherwise the leftmost offending character;
\* validateFreeFormText accepts only texts whose normalized form has no
\* offending character, and the character it reports is the leftmost one
\* ('<' for "Hello <script>").
C4_FirstOffendingCharacter ==
    /\ op = "detectInvalidCharacter" =>
          LET s == input.s
              bad == {i \in 1..Len(s) :
                         Offending(s[i], args.allowedCategories,
                                   args.allowedIndividualChars, args.disallowedChars)}
          IN  ret.value = IF bad = {} THEN Null ELSE Str(<<s[Min(bad)]>>)
    /\ op = "validateFreeFormText" =>
          LET s == normalizeText(input)
              bad == {i \in 1..Len(s) :
                         Offending(s[i], allowedCategories, allowedIndividualChars, {0})}
          IN  /\ ret.value.isValid => bad = {}
              /\ (~ret.value.isValid /\ ret.value.error[2] = " contains invalid character '") =>
                     (bad # {} /\ ret.value.error[3] = <<s[Min(bad)]>>)
              /\ (input = Str(HelloScript) /\ args.maxLength = DefaultMaxLength
                  /\ args.minLength = DefaultMinLength) =>
                     ret.value = Invalid(<<args.fieldName,
                                           " contains invalid character '", <<60>>, "'">>)

C4_Witness ==
    /\ op = "detectInvalidCharacter"
    /\ 46 \in args.disallowedChars
    /\ 46 \in args.allowedIndividualChars
    /\ input = Str(<<101, 46, 60, 8364>>)
    /\ ret.value = Str(<<46>>)

\* the result of validateFreeFormText when the checks are as listed and the
\* first failing one is reported; skipBlank: a text that is not required and
\* is blank passes every check; positiveMax: only a maxLength above 0 counts
FreeFormExpected(v, a, skipBlank, positiveMax) ==
    LET n == normalizeText(v)
        bad == {i \in 1..Len(n) :
                   Offending(n[i], allowedCategories, allowedIndividualChars, {0})}
        checked == ~(skipBlank /\ Blank(v))
    IN  FirstFailure(<<
            <<a.required /\ Blank(v), <<a.fieldName, " is required">> >>,
            <<checked /\ Len(trim(n)) < a.minLength,
              <<a.fieldName, " must be at least ", a.minLength, " characters">> >>,
            <<checked /\ (positiveMax => a.maxLength > 0) /\ Len(n) > a.maxLength,
              <<a.fieldName, " must not exceed ", a.maxLength, " characters">> >>,
            <<checked /\ bad # {},
              <<a.fieldName, " contains invalid character '",
                IF bad = {} THEN <<>> ELSE <<n[Min(bad)]>>, "'">> >> >>)

\* C5 as stated: validateFreeFormText reports the first failing check in the
\* order required -> too short (trimmed normalized length < minLength) ->
\* too long (normalized length > maxLength) -> offending character.
C5_AsStated ==
    op = "validateFreeFormText" =>
        ret = Return(FreeFormExpected(input, args, FALSE, FALSE))

\* C5 amended: validateFreeFormText reports the first failing check in the
\* order required -> too short -> too long -> offending character, where a
\* text that is empty, absent or whitespace-only and not required passes
\* without any further check, and the too-long check applies only when
\* maxLength is above 0.
C5_FirstFailingCheck ==
    op = "validateFreeFormText" =>
        ret = Return(FreeFormExpected(input, args, TRUE, TRUE))

C5_Witness ==
    /\ op = "validateFreeFormText"
    /\ IsString(input)
    /\ ~Blank(input)
    /\ Len(trim(normalizeText(input))) < args.minLength
    /\ args.maxLength > 0
    /\ Len(normalizeText(input)) > args.maxLength
    /\ normalizeText(input) # input.s
    /\ ret.value = Invalid(<<args.fieldName, " must be at least ", args.minLength,
                             " characters">>)

\* email.split('@'): the text before the first '@', and the text between
\* the first '@' and the second (or the end); no '@': the whole text, nothing
LocalOf(t) ==
    IF \E i \in 1..Len(t) : t[i] = 64
    THEN SubSeq(t, 1, Min({i \in 1..Len(t) : t[i] = 64}) - 1)
    ELSE t

DomainOf(t) ==
    LET ats == {i \in 1..Len(t) : t[i] = 64}
    IN  IF ats = {} THEN <<>>
        ELSE IF Cardinality(ats) = 1 THEN SubSeq(t, Min(ats) + 1, Len(t))
        ELSE SubSeq(t, Min(ats) + 1, Min(ats \ {Min(ats)}) - 1)

\* letters, digits, hyphens and periods, a period, two or more letters
ValidDomain(d) ==
    \E k \in 2..(Len(d) - 2) :
        /\ d[k] = 46
        /\ \A i \in 1..(k - 1) :
               \/ d[i] \in (65..90) \cup (97..122) \cup (48..57) \cup {45, 46}
        /\ \A i \in (k + 1)..Len(d) : d[i] \in (65..90) \cup (97..122)

JohnAtAt ==
    <<106, 111, 104, 110, 64, 64, 101, 120, 97, 109, 112, 108, 101, 46, 99, 111, 109>>

\* C6: validateEmail reports the first failing check in the order required
\* -> too long (trimmed length > 254) -> '@' count other than one -> empty
\* local part or domain -> local part longer than 63 -> dangerous character
\* (backtick, quote, double quote, null byte) -> domain shape, and returns
\* valid exactly when no check fails.
C6_EmailFirstFailingCheck ==
    op = "validateEmail" =>
        LET t == Trimmed(input)
        IN  /\ ret = Return(FirstFailure(<<
                   <<t = <<>>, "Email is required">>,
                   <<Len(t) > 254, "Email is too long">>,
                   <<Cardinality({i \in 1..Len(t) : t[i] = 64}) # 1,
                     "Email must contain exactly one @ symbol">>,
                   <<LocalOf(t) = <<>> \/ DomainOf(t) = <<>>,
                     "Please enter a valid email address">>,
                   <<Len(LocalOf(t)) > 63,
                     "Email local part is too long (max 63 characters)">>,
                   <<\E i \in 1..Len(t) : t[i] \in {96, 39, 34, 0},
                     "Email contains invalid characters">>,
                   <<~ValidDomain(DomainOf(t)), "Please enter a valid domain">> >>))
            /\ input = Str(JohnAtAt) =>
                   ret.value = Invalid("Email must contain exactly one @ symbol")

C6_Witness ==
    /\ op = "validateEmail"
    /\ IsString(input)
    /\ Len(LocalOf(Trimmed(input))) > 63
    /\ \E i \in 1..Len(input.s) : input.s[i] = 39
    /\ ~ValidDomain(DomainOf(Trimmed(input)))
    /\ ret.value = Invalid("Email local part is too long (max 63 characters)")

\* the email is well formed apart from the length of its local part
WellFormedEmail(t) ==
    /\ Len(t) <= 254
    /\ Cardinality({i \in 1..Len(t) : t[i] = 64}) = 1
    /\ ValidDomain(DomainOf(t))
    /\ \A i \in 1..Len(t) : t[i] \notin {96, 39, 34, 0}

\* C7: in an otherwise well-formed email a local part of exactly 63
\* characters passes and one of 64 characters fails as too long.
C7_LocalPartBoundary ==
    (op = "validateEmail" /\ IsString(input) /\ WellFormedEmail(Trimmed(input))) =>
        /\ Len(LocalOf(Trimmed(input))) = 63 => ret.value = Valid
        /\ Len(LocalOf(Trimmed(input))) = 64 =>
               ret.value = Invalid("Email local part is too long (max 63 characters)")

C7_Witness ==
    /\ op = "validateEmail"
    /\ IsString(input)
    /\ WellFormedEmail(Trimmed(input))
    /\ Len(LocalOf(Trimmed(input))) = 63
    /\ ret.value = Valid

\* the symbols that count as special characters in a password
PasswordSymbols ==
    {33, 64, 35, 36, 37, 94, 38, 42, 40, 41, 95, 43, 45, 61, 91, 93, 123, 125,
     59, 39, 58, 34, 92, 124, 44, 46, 60, 62, 47, 63}

HasAll(p) ==
    /\ \E i \in 1..Len(p) : p[i] \in 65..90
    /\ \E i \in 1..Len(p) : p[i] \in 97..122
    /\ \E i \in 1..Len(p) : p[i] \in 48..57
    /\ \E i \in 1..Len(p) : p[i] \in PasswordSymbols

\* C8: validatePassword(p) is valid exactly when p has 8 to 128 characters
\* and holds an uppercase letter (A-Z), a lowercase letter (a-z), a digit
\* and a symbol of the special-character set; the error is chosen in the
\* order required -> too short -> too long -> missing class.
C8_PasswordRule ==
    op = "validatePassword" =>
        LET p == IF IsString(input) THEN input.s ELSE <<>>
        IN  /\ ret.kind = "return"
            /\ ret.value.isValid <=> (Len(p) \in 8..128 /\ HasAll(p))
            /\ ret.value = FirstFailure(<<
                   <<p = <<>>, "Password is required">>,
                   <<Len(p) < 8, "Password must be at least 8 characters long">>,
                   <<Len(p) > 128, "Password is too long">>,
                   <<~HasAll(p),
                     "Password must contain uppercase, lowercase, number, and special character">> >>)

C8_Witness ==
    /\ op = "validatePassword"
    /\ IsString(input)
    /\ Len(input.s) = 8
    /\ HasAll(input.s)
    /\ ret.value = Valid

\* the validator named by f
Validate(f, v) ==
    CASE f = "validateEmail" -> validateEmail(v)
      [] f = "validatePassword" -> validatePassword(v)
      [] f = "validateFullName" -> validateFullName(v)
      [] f = "validatePhone" -> validatePhone(v)
      [] f = "validateAMKA" -> validateAMKA(v)
      [] f = "validateLicenseID" -> validateLicenseID(v)
      [] f = "validateSelectField" -> validateSelectField(v)

\* C9: validateEmail, validatePassword, validateFullName, validatePhone,
\* validateAMKA, validateLicenseID and validateSelectField give a value the
\* result they give the value with its leading and trailing whitespace
\* removed.
C9_TrimBeforeEvaluation ==
    (op \in Validators \ {"validateFreeFormText"} /\ IsString(input)) =>
        ret = Validate(op, Str(trim(input.s)))

\* the result of validateFullName when onlySpace says whether U+0020 is the
\* only whitespace character a name may hold
FullNameExpected(v, onlySpace) ==
    LET t == Trimmed(v)
        ok(c) ==
            \/ c \in (65..90) \cup (97..122) \cup {45, 39}
            \/ c \in {241, 225, 233, 237, 243, 250, 252, 224, 232, 236, 242, 249,
                      226, 234, 238, 244, 251, 228, 235, 239, 246, 231}
            \/ IF onlySpace THEN c = 32 ELSE IsWhiteSpace(c)
    IN  FirstFailure(<<
            <<t = <<>>, "Full name is required">>,
            <<Len(t) < 2, "Full name must be at least 2 characters">>,
            <<Len(t) > 100, "Full name is too long">>,
            <<\E i \in 1..Len(t) : ~ok(t[i]), "Full name contains invalid characters">> >>)

\* C10 as stated: validateFullName(n) is valid iff n trimmed has 2 to 100
\* characters, each a letter (ASCII or of the accented set), a space, a hyphen
\* or an apostrophe; failures are reported in the order required -> too short
\* -> too long -> invalid characters.
C10_AsStated ==
    op = "validateFullName" => ret = Return(FullNameExpected(input, TRUE))

\* C10 amended: as stated, with any whitespace character (space, tab, line
\* break, no-break space, ...) accepted inside the name where the claim
\* says space.
C10_FullNameRule ==
    op = "validateFullName" => ret = Return(FullNameExpected(input, FALSE))

C10_Witness ==
    /\ op = "validateFullName"
    /\ input = Str(<<233, 9, 97>>)
    /\ ret.value = Valid

\* the result of validatePhone when onlySpace says whether U+0020 is the only
\* whitespace character removed from inside the number
PhoneExpected(v, onlySpace) ==
    LET t == Trimmed(v)
        separator(c) ==
            \/ c \in {45, 40, 41}
            \/ IF onlySpace THEN c = 32 ELSE IsWhiteSpace(c)
        rest == SelectSeq(t, LAMBDA c : ~separator(c))
        digits == IF rest # <<>> /\ rest[1] = 43 THEN Tail(rest) ELSE rest
    IN  IF Blank(v) THEN Valid
        ELSE IF Len(digits) \in 7..15 /\ \A i \in 1..Len(digits) : digits[i] \in 48..57
        THEN Valid
        ELSE Invalid("Please enter a valid phone number")

\* C11 as stated: validatePhone is valid for an empty or whitespace-only
\* phone; otherwise it is valid iff the phone, trimmed and with every space,
\* hyphen and parenthesis removed, is an optional leading '+' followed by 7
\* to 15 digits, and the only failure is the shape mismatch.
C11_AsStated ==
    op = "validatePhone" => ret = Return(PhoneExpected(input, TRUE))

\* C11 amended: as stated, with every whitespace character (space, tab, line
\* break, ...) removed from inside the number where the claim says space.
C11_PhoneRule ==
    op = "validatePhone" => ret = Return(PhoneExpected(input, FALSE))

C11_Witness ==
    /\ op = "validatePhone"
    /\ input = Str(<<49, 50, 51, 9, 52, 53, 54, 55>>)
    /\ ret.value = Valid

\* C12: validateAMKA is valid exactly for the values that trimmed are 11
\* ASCII digits; 10 or 12 digits and any trimmed non-empty value holding a
\* non-digit fail with "AMKA must be 11 digits"; an empty value fails with
\* the required error first.
C12_AMKARule ==
    op = "validateAMKA" =>
        LET t == Trimmed(input)
        IN  ret = Return(FirstFailure(<<
                <<t = <<>>, "AMKA is required">>,
                <<Len(t) # 11 \/ \E i \in 1..Len(t) : t[i] \notin 48..57,
                  "AMKA must be 11 digits">> >>))

C12_Witness ==
    /\ op = "validateAMKA"
    /\ IsString(input)
    /\ Len(input.s) = 12
    /\ \A i \in 1..12 : input.s[i] \in 48..57
    /\ ret.value = Invalid("AMKA must be 11 digits")

\* C13: validateLicenseID is valid iff the trimmed value has 3 to 50
\* characters, each a letter (A-Z, a-z), a digit, a hyphen or a slash;
\* failures are reported in the order required -> too short -> too long ->
\* invalid characters.
C13_LicenseRule ==
    op = "validateLicenseID" =>
        LET t == Trimmed(input)
            ok(c) == c \in 65..90 \/ c \in 97..122 \/ c \in 48..57 \/ c \in {45, 47}
        IN  /\ ret.value.isValid <=>
                   (Len(t) \in 3..50 /\ \A i \in 1..Len(t) : ok(t[i]))
            /\ ret = Return(FirstFailure(<<
                   <<t = <<>>, "License ID is required">>,
                   <<Len(t) < 3, "License ID is too short">>,
                   <<Len(t) > 50, "License ID is too long">>,
                   <<\E i \in 1..Len(t) : ~ok(t[i]),
                     "License ID contains invalid characters">> >>))

C13_Witness ==
    /\ op = "validateLicenseID"
    /\ IsString(input)
    /\ Len(Trimmed(input)) > 50
    /\ \E i \in 1..Len(input.s) : input.s[i] = 95
    /\ ret.value = Invalid("License ID is too long")

-----------------------------------------------------------------------------
(* Properties of the sanitizers *)

\* the text with A-Z replaced by a-z
Lowered(s) == [i \in 1..Len(s) |-> IF s[i] \in 65..90 THEN s[i] + 32 ELSE s[i]]

\* pat occurs in s
Occurs(s, pat) == \E i \in 1..(Len(s) - Len(pat) + 1) : SubSeq(s, i, i + Len(pat) - 1) = pat

\* "on", one or more of a-z 0-9 _, any whitespace, "=" occurs in the lowered s
OccursHandler(s) ==
    \E i \in 1..Len(s), j \in 1..Len(s), k \in 1..Len(s) :
        /\ i + 2 <= j /\ j < k
        /\ SubSeq(s, i, i + 1) = <<111, 110>>
        /\ \A m \in (i + 2)..j : s[m] \in 97..122 \/ s[m] \in 48..57 \/ s[m] = 95
        /\ \A m \in (j + 1)..(k - 1) : IsWhiteSpace(s[m])
        /\ s[k] = 61

\* the text matches one of the eight signatures, whatever the case
MatchesSignature(s) ==
    \/ \E pat \in { <<60, 115, 99, 114, 105, 112, 116>>,
                     <<106, 97, 118, 97, 115, 99, 114, 105, 112, 116, 58>>,
                     <<60, 105, 102, 114, 97, 109, 101>>, <<60, 111, 98, 106, 101, 99, 116>>,
                     <<60, 101, 109, 98, 101, 100>>, <<101, 118, 97, 108, 40>>,
                     <<101, 120, 112, 114, 101, 115, 115, 105, 111, 110, 40>> } :
           Occurs(Lowered(s), pat)
    \/ OccursHandler(Lowered(s))

\* C14: sanitizeAndValidate returns the empty string for every input that
\* matches one of the case-insensitive signatures, and sanitizeInput(input)
\* for every other input.
C14_DangerousDiscarded ==
    op = "sanitizeAndValidate" =>
        ret = IF IsString(input) /\ MatchesSignature(input.s)
              THEN Return(Str(<<>>))
              ELSE sanitizeInput(input)

\* sanitizeAndValidate("<script>alert(1)</script>") = ""
C14_Witness ==
    /\ op = "sanitizeAndValidate"
    /\ input = Str(<<60, 115, 99, 114, 105, 112, 116, 62, 97, 108, 101, 114, 116, 40, 49, 41, 60, 47, 115, 99, 114, 105, 112, 116, 62>>)
    /\ ret = Return(Str(<<>>))

\* the text without its tags: a '<' with a '>' after it is removed with
\* everything up to the first such '>'
RECURSIVE RemoveTags(_)
RemoveTags(s) ==
    IF s = <<>> THEN <<>>
    ELSE IF s[1] = 60 /\ \E q \in 2..Len(s) : s[q] = 62
    THEN LET close == Min({q \in 2..Len(s) : s[q] = 62})
         IN  RemoveTags(SubSeq(s, close + 1, Len(s)))
    ELSE <<s[1]>> \o RemoveTags(Tail(s))

\* C15: sanitizeInput removes every tag-shaped substring and only then
\* decodes &lt; &gt; &quot; &#x27; &amp; in that order, without stripping
\* again: "&lt;script&gt;" comes out as "<script>" and "&amp;lt;" as "&lt;".
C15_StripThenDecode ==
    (op = "sanitizeInput" /\ IsString(input)) =>
        /\ ret = Return(Str(
               ReplaceAll(ReplaceAll(ReplaceAll(ReplaceAll(ReplaceAll(
                   RemoveTags(input.s),
                   <<38, 108, 116, 59>>, <<60>>), <<38, 103, 116, 59>>, <<62>>),
                   <<38, 113, 117, 111, 116, 59>>, <<34>>),
                   <<38, 35, 120, 50, 55, 59>>, <<39>>),
                   <<38, 97, 109, 112, 59>>, <<38>>)))
        /\ input.s = <<38, 108, 116, 59, 115, 99, 114, 105, 112, 116, 38, 103, 116, 59>>
               => ret.value.s = <<60, 115, 99, 114, 105, 112, 116, 62>>
        /\ input.s = <<38, 97, 109, 112, 59, 108, 116, 59>>
               => ret.value.s = <<38, 108, 116, 59>>

\* sanitizeInput("&amp;lt;") = "&lt;"
C15_Witness ==
    /\ op = "sanitizeInput"
    /\ input = Str(<<38, 97, 109, 112, 59, 108, 116, 59>>)
    /\ ret = Return(Str(<<38, 108, 116, 59>>))

\* C16: for every string made only of & < > " ' / and letters, decoding the
\* five entities &lt; &gt; &quot; &#x27; &amp; in encodeHTML(s) gives s back.
C16_RoundTrip ==
    (/\ op = "encodeHTML"
     /\ IsString(input)
     /\ \A i \in 1..Len(input.s) :
            \/ input.s[i] \in {38, 60, 62, 34, 39, 47}
            \/ input.s[i] \in 65..90
            \/ input.s[i] \in 97..122)
    => DecodeEntities(ret.value.s) = input.s

\* C17: sanitizeText and limitLength(., N) are idempotent, and
\* limitLength(s, N) is the prefix of s of at most N characters, s itself
\* when s has no more than N characters.
C17_Idempotent ==
    /\ op = "sanitizeText" => sanitizeText(ret.value) = ret
    /\ op = "limitLength" =>
           /\ limitLength(ret.value, args.maxLength) = ret
           /\ (IsString(input) /\ args.maxLength >= 0) =>
                  /\ Len(ret.value.s) <= args.maxLength
                  /\ Len(ret.value.s) <= Len(input.s)
                  /\ ret.value.s = SubSeq(input.s, 1, Len(ret.value.s))
                  /\ Len(input.s) <= args.maxLength => ret.value.s = input.s
                  /\ Len(input.s) >= args.maxLength => Len(ret.value.s) = args.maxLength

C17_Witness ==
    /\ op = "sanitizeText"
    /\ input = Str(<<32, 32, 97>>)
    /\ ret = Return(Str(<<97>>))

\* every value of the result is the sanitized string or the untouched
\* non-string value of the same key of the input
FormValuesSanitized(data, result) ==
    \A key \in DOMAIN result :
        result[key] = IF IsString(data[key]) THEN sanitizeInput(data[key]).value
                      ELSE data[key]

\* C18 as stated: the result of sanitizeFormData has exactly the keys of its
\* input, every string value v replaced by sanitizeInput(v) and every other
\* value (numbers, booleans, objects, null, undefined) unchanged.
C18_AsStated ==
    op = "sanitizeFormData" =>
        /\ DOMAIN ret.value.fields = DOMAIN input.fields
        /\ FormValuesSanitized(input.fields, ret.value.fields)

\* C18 amended: the result has the keys of the input whose value is neither
\* null nor undefined (those keys are left out); every string value v is
\* replaced by sanitizeInput(v) and every other kept value is unchanged.
C18_FormDataShape ==
    op = "sanitizeFormData" =>
        /\ DOMAIN ret.value.fields =
               {key \in DOMAIN input.fields :
                   input.fields[key].t \notin {"null", "undefined"}}
        /\ FormValuesSanitized(input.fields, ret.value.fields)

C18_Witness ==
    /\ op = "sanitizeFormData"
    /\ input = Obj([fullName |-> Str(<<60, 98, 62, 97, 60, 47, 98, 62>>), bio |-> Null,
                    age |-> Num(0)])
    /\ ret = Return(Obj([fullName |-> Str(<<97>>), age |-> Num(0)]))

\* a letter of a name: A-Z, a-z or one of the accented letters that
\* validateFullName accepts
IsNameLetter(c) ==
    \/ c \in 65..90
    \/ c \in 97..122
    \/ c \in {241, 225, 233, 237, 243, 250, 252, 224, 232, 236, 242, 249, 226,
               234, 238, 244, 251, 228, 235, 239, 246, 231}

\* a letter, a hyphen or an apostrophe
IsNameMark(c) == IsNameLetter(c) \/ c \in {45, 39}

\* C19: the output of sanitizeName holds only letters (ASCII and the
\* accented set of validateFullName), spaces, hyphens and apostrophes, keeps
\* every letter, hyphen and apostrophe of the trimmed, tag-stripped input in
\* order, and holds no two consecutive spaces.
C19_NameCharactersKept ==
    (op = "sanitizeName" /\ IsString(input)) =>
        LET out == ret.value.s
        IN  /\ \A i \in 1..Len(out) : IsNameMark(out[i]) \/ out[i] = 32
            /\ SelectSeq(out, IsNameMark)
                   = SelectSeq(StripTags(trim(input.s)), IsNameMark)
            /\ \A i \in 1..(Len(out) - 1) : ~(out[i] = 32 /\ out[i + 1] = 32)

\* C20: the output of sanitizeTextarea holds no '<' followed later by a
\* '>', no two consecutive newlines, no tab and no two consecutive spaces.
C20_TextareaOutput ==
    op = "sanitizeTextarea" =>
        LET out == ret.value.s
        IN  /\ ret.kind = "return"
            /\ ~(\E i \in 1..Len(out), j \in 1..Len(out) :
                      i < j /\ out[i] = 60 /\ out[j] = 62)
            /\ \A i \in 1..(Len(out) - 1) : ~(out[i] = 10 /\ out[i + 1] = 10)
            /\ \A i \in 1..Len(out) : out[i] # 9
            /\ \A i \in 1..(Len(out) - 1) : ~(out[i] = 32 /\ out[i + 1] = 32)

\* sanitizeTextarea("<a>A\t\tb\n\n\nc</a>") = "A b\nc"
C20_Witness ==
    /\ op = "sanitizeTextarea"
    /\ input = Str(<<60, 97, 62, 65, 9, 9, 98, 10, 10, 10, 99, 60, 47, 97, 62>>)
    /\ ret = Return(Str(<<65, 32, 98, 10, 99>>))

\* the characters of s that satisfy none of the tests below are removed
Digit09(c) == c \in 48..57

PhoneKept(c) == c \in 48..57 \/ c \in {43, 45, 40, 41, 32}

LicenseKept(c) == c \in 65..90 \/ c \in 97..122 \/ c \in 48..57 \/ c \in {45, 47}

\* C21: sanitizeNumber, sanitizePhoneNumber and sanitizeAlphanumeric return
\* the subsequence of the input made of the allowed characters (ASCII
\* digits; digits + - ( ) space; ASCII letters, digits, hyphen, slash), in
\* the original order, and each is idempotent.
C21_FilterSubsequence ==
    LET s == IF IsString(input) THEN input.s ELSE <<>>
    IN  /\ op = "sanitizeNumber" =>
               /\ ret = Return(Str(SelectSeq(s, Digit09)))
               /\ sanitizeNumber(ret.value) = ret
        /\ op = "sanitizePhoneNumber" =>
               /\ ret = Return(Str(SelectSeq(s, PhoneKept)))
               /\ sanitizePhoneNumber(ret.value) = ret
        /\ op = "sanitizeAlphanumeric" =>
               /\ ret = Return(Str(SelectSeq(s, LicenseKept)))
               /\ sanitizeAlphanumeric(ret.value) = ret

\* sanitizePhoneNumber("123\t4567") = "1234567"
C21_Witness ==
    /\ op = "sanitizePhoneNumber"
    /\ input = Str(<<49, 50, 51, 9, 52, 53, 54, 55>>)
    /\ ret = Return(Str(<<49, 50, 51, 52, 53, 54, 55>>))

\* the tests of the classifier in their order, each with its category
CategoryTests(c) ==
    << << \/ c \in 65..90 \/ c \in 97..122
          \/ c \in 192..591 \/ c \in 880..1279 \/ c \in 1424..1791
          \/ c \in 2304..2431 \/ c \in 12352..12543 \/ c \in 19968..40959, "L" >>,
       << c \in 48..57, "N" >>,
       << IsWhiteSpace(c), "Z" >>,
       << \/ c \in 33..47 \/ c \in 58..64 \/ c \in 91..96 \/ c \in 123..126, "P" >>,
       << c \in 0..31 \/ c \in 127..159, "C" >>,
       << c \in 768..879 \/ c \in 6832..6911, "M" >>,
       << TRUE, "S" >> >>

\* the category of the first test that matches
FirstCategory(c) ==
    LET tests == CategoryTests(c)
    IN  tests[Min({k \in 1..Len(tests) : tests[k][1]})][2]

\* C22: the classifier gives every character exactly one category, that of
\* the first matching test in the order letter ranges -> ASCII digit ->
\* whitespace -> ASCII punctuation -> C0/C1 control -> combining mark ->
\* Symbol; tab, newline and carriage return are Separator and free-form
\* validation never rejects them.
C22_FirstMatchingCategory ==
    /\ op = "getUnicodeCategory" =>
           /\ ret = Return(FirstCategory(input.s[1]))
           /\ input.s[1] \in {9, 10, 13} => ret.value = "Z"
    /\ (/\ op = "validateFreeFormText"
        /\ ~ret.value.isValid
        /\ Len(ret.value.error) = 4
        /\ ret.value.error[2] = " contains invalid character '")
       => ret.value.error[3] \notin {<<9>>, <<10>>, <<13>>}

C22_Witness ==
    /\ op = "getUnicodeCategory"
    /\ input = Str(<<9>>)
    /\ ret = Return("Z")

-----------------------------------------------------------------------------
(* Validators and sanitizers together *)

\* C24: for every p that validatePassword accepts, validatePassword accepts
\* sanitizePassword(p) too.
C24_SanitizedPasswordValid ==
    (op = "validatePassword" /\ ret.value.isValid) =>
        validatePassword(sanitizePassword(input).value).value.isValid

\* C25: for every n that validateFullName accepts, sanitizeName(n) keeps
\* every letter, hyphen and apostrophe of n, is n trimmed with each run of
\* whitespace replaced by one space, and is accepted by validateFullName.
C25_SanitizedNameValid ==
    (op = "validateFullName" /\ ret.value.isValid) =>
        LET out == sanitizeName(input).value
        IN  /\ SelectSeq(out.s, IsNameMark) = SelectSeq(input.s, IsNameMark)
            /\ out.s = Collapse(trim(input.s), WhiteSpaceChars, 32)
            /\ validateFullName(out).value.isValid

\* C26: containsDangerousPatterns is false of the output of
\* sanitizeAndValidate, for every input.
C26_OutputNotDangerous ==
    op = "sanitizeAndValidate" => ~containsDangerousPatterns(ret.value)

\* C27: sanitizeName and sanitizeTextarea are idempotent; in particular
\* their output has no whitespace at its ends.
C27_NameTextareaIdempotent ==
    /\ op = "sanitizeName" =>
           /\ sanitizeName(ret.value) = ret
           /\ trim(ret.value.s) = ret.value.s
    /\ op = "sanitizeTextarea" =>
           /\ sanitizeTextarea(ret.value) = ret
           /\ trim(ret.value.s) = ret.value.s

\* C29: a text that is empty, absent or whitespace-only and not required is
\* valid whatever minLength is, and with a maxLength of 0 or less no text is
\* reported as too long.
C29_BlankOptionalValid ==
    op = "validateFreeFormText" =>
        /\ (~args.required /\ Blank(input)) => ret = Return(Valid)
        /\ args.maxLength <= 0 =>
               ~(/\ ~ret.value.isValid
                 /\ Len(ret.value.error) = 4
                 /\ ret.value.error[2] = " must not exceed ")

\* validateFreeFormText("  ", 3, 0, false) is valid
C29_Witness ==
    /\ op = "validateFreeFormText"
    /\ input = Str(<<32, 32>>)
    /\ ~args.required
    /\ args.minLength = 3
    /\ args.maxLength = 0
    /\ ret = Return(Valid)

\* C30: a phone that validatePhone accepts is still accepted after
\* sanitizePhoneNumber; for an AMKA that validateAMKA accepts sanitizeNumber
\* gives the 11 digits of the trimmed value; for a license ID that
\* validateLicenseID accepts sanitizeAlphanumeric gives the trimmed value.
C30_SanitizedStillValid ==
    /\ (op = "validatePhone" /\ ret.value.isValid) =>
           validatePhone(sanitizePhoneNumber(input).value).value.isValid
    /\ (op = "validateAMKA" /\ ret.value.isValid) =>
           LET out == sanitizeNumber(input).value.s
           IN  /\ Len(out) = 11
               /\ \A i \in 1..Len(out) : out[i] \in 48..57
               /\ out = Trimmed(input)
    /\ (op = "validateLicenseID" /\ ret.value.isValid) =>
           sanitizeAlphanumeric(input).value.s = Trimmed(input)

C30_Witness ==
    /\ op = "validateLicenseID"
    /\ IsString(input)
    /\ Trimmed(input) # input.s
    /\ \E i \in 1..Len(input.s) : input.s[i] = 47
    /\ ret = Return(Valid)

-----------------------------------------------------------------------------
(* Properties of the pages *)

\* the validator a form applies to a field
ValidatorResult(key, v) ==
    CASE key = "email" -> validateEmail(v)
      [] key = "password" -> validatePassword(v)
      [] key = "fullName" -> validateFullName(v)
      [] key = "phone" -> validatePhone(v)
      [] key = "licenceID" -> validateLicenseID(v)
      [] key = "amka" -> validateAMKA(v)
      [] key = "bio" -> validateFreeFormText(v, 0, 1000, FALSE, "Bio")
      [] key \in {"speciality", "officeLocation"} -> validateSelectField(v)

\* the sanitizer of a text field
SanitizerResult(key, v) ==
    CASE key = "email" -> sanitizeEmail(v)
      [] key = "password" -> sanitizePassword(v)
      [] key = "fullName" -> sanitizeName(v)
      [] key = "phone" -> sanitizePhoneNumber(v)
      [] key = "licenceID" -> sanitizeAlphanumeric(v)
      [] key = "amka" -> sanitizeNumber(v)
      [] key = "bio" -> sanitizeTextarea(v)

\* the fields the mounted form validates for the current user type
ValidatedKeys ==
    CASE page = "SignIn" -> {"email", "password"}
      [] page = "SignUp" ->
           {"email", "password", "fullName"}
           \cup (IF userType = "DOCTOR" THEN {"speciality", "licenceID", "officeLocation"}
                 ELSE {"amka"})
      [] page = "Profile" ->
           {"fullName", "email", "phone"}
           \cup (IF userType = "DOCTOR" THEN {"licenceID", "bio", "officeLocation"}
                 ELSE {"amka"})
      [] OTHER -> {}

\* the text fields the mounted form forwards to the store
ForwardedTextKeys ==
    CASE page = "SignIn" -> {"email", "password"}
      [] page = "SignUp" -> {"email", "password", "fullName", "licenceID", "amka"}
      [] page = "Profile" ->
           {"fullName", "email", "phone", "amka"}
           \cup (IF userType = "DOCTOR" THEN {"licenceID", "bio"} ELSE {})
      [] OTHER -> {}

FailingKeys ==
    {key \in ValidatedKeys : ~ValidatorResult(key, OrEmpty(fields[key])).value.isValid}

StoreMethodOf ==
    [SignIn |-> "login", SignUp |-> "register", Profile |-> "updateUserData"]

SubmitHandlers == {"SignIn.handleSubmit", "SignUp.handleSubmit", "Profile.submitHandler"}

C28_RatingAfterChecks ==
    /\ Len(comments.s) <= 400
    /\ remoteCall.method = "createRating" =>
           /\ page = "AppointmentFeedback"
           /\ rating # 0
           /\ appointment.t = "object"
           /\ validateFreeFormText(comments, 0, 400, FALSE, "Comments") = Return(Valid)
           /\ remoteCall.data.stars = rating
           /\ remoteCall.data.appointmentID = appointment.fields.appointmentid

\* createRating is called with comments of 400 characters
C28_Witness ==
    /\ op = "AppointmentFeedback.submitHandler"
    /\ remoteCall.method = "createRating"
    /\ Len(comments.s) = 400

=============================================================================
